---- MODULE Spec2Model ----
(***************************************************************************)
(* A model of the weather client: the three client generations that live  *)
(* in the repository (the unit-enum client of weather.go:1-393, the       *)
(* Units-string client of weather.go:395-592, and the weatherCaster       *)
(* client of weathercaster.go / unnamed/part_010), their URL formation,   *)
(* the normalisation of the upstream response and the forecast formatter. *)
(*                                                                         *)
(* Go strings are sequences of one-character strings, so that URL and     *)
(* forecast text can be taken apart again.  A nil pointer / absent JSON   *)
(* field is the empty sequence, a present value v is <<v>>.  Numbers are  *)
(* float64 values held exactly; the JSON numbers are given in hundredths. *)
(***************************************************************************)
EXTENDS Integers, Sequences, FiniteSets, TLC

VARIABLES client, last

vars == <<client, last>>

Nil == <<>>
Some(v) == <<v>>

-----------------------------------------------------------------------------
(* Bounds of the model *)

\* longest location string tried
MaxLocLen == 2
\* longest upstream `list` array tried
MaxListLen == 2
\* most functional options passed to NewClient
MaxOpts == 2

-----------------------------------------------------------------------------
(* String helpers *)

RECURSIVE Concat(_)
Concat(parts) == IF parts = <<>> THEN <<>> ELSE Head(parts) \o Concat(Tail(parts))

StartsWith(s, p) == Len(s) >= Len(p) /\ SubSeq(s, 1, Len(p)) = p

\* s with its first n characters removed
Drop(s, n) == SubSeq(s, n + 1, Len(s))

\* positions at which p occurs in s
Occurrences(s, p) == {i \in 1..(Len(s) - Len(p) + 1) : SubSeq(s, i, i + Len(p) - 1) = p}

Contains(s, p) == Occurrences(s, p) # {}

\* first position of character ch in s, or 0
IndexOfChar(s, ch) ==
    IF \E i \in 1..Len(s) : s[i] = ch
    THEN CHOOSE i \in 1..Len(s) : s[i] = ch /\ \A j \in 1..(i - 1) : s[j] # ch
    ELSE 0

\* the pieces of s between occurrences of character ch
RECURSIVE SplitChar(_, _)
SplitChar(s, ch) ==
    LET i == IndexOfChar(s, ch)
    IN  IF i = 0 THEN <<s>>
        ELSE <<SubSeq(s, 1, i - 1)>> \o SplitChar(Drop(s, i), ch)

\* all strings over alphabet of length at most n
RECURSIVE StringsUpTo(_, _)
StringsUpTo(alphabet, n) ==
    IF n = 0 THEN {<<>>}
    ELSE LET shorter == StringsUpTo(alphabet, n - 1)
         IN  shorter \cup {Append(s, c) : s \in shorter, c \in alphabet}

-----------------------------------------------------------------------------
(* strings.ToLower and url.QueryEscape, over the characters the model uses *)

UpperCase == <<"A", "B", "C", "D", "E", "F", "G", "H", "I", "J", "K", "L", "M", "N", "O", "P", "Q", "R", "S", "T", "U", "V", "W", "X", "Y", "Z">>
LowerCase == <<"a", "b", "c", "d", "e", "f", "g", "h", "i", "j", "k", "l", "m", "n", "o", "p", "q", "r", "s", "t", "u", "v", "w", "x", "y", "z">>
UpperToLower(c) ==
    IF \E i \in 1..26 : UpperCase[i] = c
    THEN LowerCase[CHOOSE i \in 1..26 : UpperCase[i] = c]
    ELSE c

ToLower(s) == [i \in 1..Len(s) |-> UpperToLower(s[i])]

\* the characters url.QueryEscape leaves alone: letters, digits, - _ . ~
Unreserved ==
    {"a", "b", "c", "d", "e", "f", "g", "h", "i", "j", "k", "l", "m", "n", "o",
     "p", "q", "r", "s", "t", "u", "v", "w", "x", "y", "z",
     "A", "B", "C", "D", "E", "F", "G", "H", "I", "J", "K", "L", "M", "N", "O",
     "P", "Q", "R", "S", "T", "U", "V", "W", "X", "Y", "Z",
     "0", "1", "2", "3", "4", "5", "6", "7", "8", "9", "-", "_", ".", "~"}

\* the two upper-case hex digits of the ASCII code of a reserved character
HexCode(c) ==
    CASE c = "," -> <<"2", "C">>
      [] c = "&" -> <<"2", "6">>
      [] c = "=" -> <<"3", "D">>
      [] c = "#" -> <<"2", "3">>
      [] c = "/" -> <<"2", "F">>
      [] c = "?" -> <<"3", "F">>
      [] c = "%" -> <<"2", "5">>
      [] c = "+" -> <<"2", "B">>
      [] c = ":" -> <<"3", "A">>

\* EscapeChar that leaves "&", "=" and "#" as they are
EscapeChar_SpaceAndCommaOnly(c) ==
    IF c = " " THEN <<"+">>
    ELSE IF c = "," THEN <<"%">> \o HexCode(c)
    ELSE <<c>>

EscapeChar(c) ==
    IF c = " " THEN <<"+">>
    ELSE IF c \in Unreserved THEN <<c>>
    ELSE <<"%">> \o HexCode(c)

RECURSIVE QueryEscape(_)
QueryEscape(s) == IF s = <<>> THEN <<>> ELSE EscapeChar(Head(s)) \o QueryEscape(Tail(s))

-----------------------------------------------------------------------------
(* Literals of the source *)

DefaultAPIHost ==
    <<"h", "t", "t", "p", "s", ":", "/", "/", "a", "p", "i", ".", "o", "p", "e", "n",
      "w", "e", "a", "t", "h", "e", "r", "m", "a", "p", ".", "o", "r", "g">>
DefaultAPIURI ==
    <<"/", "d", "a", "t", "a", "/", "2", ".", "5", "/", "f", "o", "r", "e", "c", "a", "s", "t">>
DefaultUnits == <<"i", "m", "p", "e", "r", "i", "a", "l">>
CasterApiHost ==
    <<"a", "p", "i", ".", "o", "p", "e", "n", "w", "e", "a", "t", "h", "e", "r", "m",
      "a", "p", ".", "o", "r", "g">>
CasterApiQueryOptions ==
    <<"&", "u", "n", "i", "t", "s", "=", "i", "m", "p", "e", "r", "i", "a", "l",
      "&", "c", "n", "t", "=", "1">>

Standard == <<"s", "t", "a", "n", "d", "a", "r", "d">>
Metric == <<"m", "e", "t", "r", "i", "c">>
Imperial == <<"i", "m", "p", "e", "r", "i", "a", "l">>

SpeedUnitMiles == 0
SpeedUnitMeters == 1
TempUnitFahrenheit == 0
TempUnitCelsius == 1
TempUnitKelvin == 2

\* speedUnitName with the miles label in upper case
speedUnitName_UpperCase ==
    (SpeedUnitMiles :> <<"M", "P", "H">>) @@ (SpeedUnitMeters :> <<"m", "/", "s">>)

\* speedUnitName and tempUnitName of the unit-enum client
speedUnitName ==
    (SpeedUnitMiles :> <<"m", "p", "h">>) @@ (SpeedUnitMeters :> <<"m", "/", "s">>)
tempUnitName ==
    (TempUnitFahrenheit :> <<" ", "º", "F">>) @@ (TempUnitCelsius :> <<" ", "º", "C">>)
        @@ (TempUnitKelvin :> <<"K">>)

\* a Go map lookup: the value, or the zero value "" when the key is missing
speedUnitLabel(u) == IF u \in DOMAIN speedUnitName THEN speedUnitName[u] ELSE <<>>
tempUnitLabel(u) == IF u \in DOMAIN tempUnitName THEN tempUnitName[u] ELSE <<>>

-----------------------------------------------------------------------------
(* Numbers.  A float64 is held exactly: its sign, its 53-bit significand  *)
(* and its binary exponent (no value of the program is subnormal or       *)
(* overflows).  Natural numbers beyond 31 bits are sequences of 15-bit     *)
(* limbs, least significant first.  An operand is worked out once, by      *)
(* drawing it from the set that holds it alone.                            *)

Limb == 32768
LimbBits == 15

\* the only element of a set of one element
The(S) == CHOOSE x \in S : TRUE

Pow2(k) == <<1, 2, 4, 8, 16, 32, 64, 128, 256, 512, 1024, 2048, 4096, 8192,
             16384, 32768>>[k + 1]

RECURSIVE Pow10(_)
Pow10(p) == IF p = 0 THEN 1 ELSE 10 * Pow10(p - 1)

\* a without its leading zero limbs
RECURSIVE BNorm(_)
BNorm(a) == IF a # <<>> /\ a[Len(a)] = 0 THEN BNorm(SubSeq(a, 1, Len(a) - 1)) ELSE a

RECURSIVE BFromInt(_)
BFromInt(k) == IF k = 0 THEN <<>> ELSE <<k % Limb>> \o BFromInt(k \div Limb)

\* the integer a stands for, when it has at most two limbs
BToInt(a) ==
    CASE Len(a) = 0 -> 0
      [] Len(a) = 1 -> a[1]
      [] Len(a) = 2 -> a[1] + Limb * a[2]

BLimb(a, i) == IF i <= Len(a) THEN a[i] ELSE 0

\* -1, 0 or 1 as a is below, equal to or above b
BCmpOf(a, b) ==
    IF a = b THEN 0
    ELSE IF Len(a) # Len(b) THEN (IF Len(a) < Len(b) THEN 0 - 1 ELSE 1)
    ELSE LET i == CHOOSE i \in 1..Len(a) :
                      a[i] # b[i] /\ \A j \in (i + 1)..Len(a) : a[j] = b[j]
         IN  IF a[i] < b[i] THEN 0 - 1 ELSE 1

BCmp(x, y) == The({BCmpOf(a, b) : a \in {x}, b \in {y}})

RECURSIVE BAddFrom(_, _, _, _)
BAddFrom(a, b, i, carry) ==
    IF i > Len(a) /\ i > Len(b)
    THEN (IF carry = 0 THEN <<>> ELSE <<carry>>)
    ELSE The({<<s % Limb>> \o BAddFrom(a, b, i + 1, s \div Limb) :
                 s \in {BLimb(a, i) + BLimb(b, i) + carry}})

BAdd(x, y) == The({BAddFrom(a, b, 1, 0) : a \in {x}, b \in {y}})

\* a - b for a >= b
RECURSIVE BSubFrom(_, _, _, _)
BSubFrom(a, b, i, borrow) ==
    IF i > Len(a) THEN <<>>
    ELSE The({<<s % Limb>> \o BSubFrom(a, b, i + 1, IF s < 0 THEN 1 ELSE 0) :
                 s \in {a[i] - BLimb(b, i) - borrow}})

BSub(x, y) == The({BNorm(r) : r \in {BSubFrom(a, b, 1, 0) : a \in {x}, b \in {y}}})

\* a times the small number m (m <= Limb)
RECURSIVE BMulSmallFrom(_, _, _, _)
BMulSmallFrom(a, m, i, carry) ==
    IF i > Len(a) THEN BFromInt(carry)
    ELSE The({<<p % Limb>> \o BMulSmallFrom(a, m, i + 1, p \div Limb) :
                 p \in {a[i] * m + carry}})

BMulSmall(x, m) == The({BNorm(r) : r \in {BMulSmallFrom(a, m, 1, 0) : a \in {x}}})

\* a times b, limb i of b and up
RECURSIVE BMulFrom(_, _, _)
BMulFrom(a, b, i) ==
    IF i > Len(b) THEN <<>>
    ELSE BAdd([j \in 1..(i - 1) |-> 0] \o BMulSmall(a, b[i]), BMulFrom(a, b, i + 1))

BMul(x, y) == The({BNorm(r) : r \in {BMulFrom(a, b, 1) : a \in {x}, b \in {y}}})

\* the remainder of a by the small number m (m <= Limb) followed by the
\* limbs of the quotient, worked from the most significant limb down
RECURSIVE BDivSmallFrom(_, _, _, _)
BDivSmallFrom(a, m, i, rem) ==
    IF i = 0 THEN <<rem>>
    ELSE The({Append(BDivSmallFrom(a, m, i - 1, cur % m), cur \div m) :
                 cur \in {rem * Limb + a[i]}})

\* quotient and remainder of a by the small number m
BDivSmall(x, m) ==
    The({[q |-> BNorm(Tail(res)), r |-> Head(res)] :
            res \in {BDivSmallFrom(a, m, Len(a), 0) : a \in {x}}})

\* the number of bits of a
RECURSIVE BitsOfInt(_)
BitsOfInt(k) == IF k = 0 THEN 0 ELSE 1 + BitsOfInt(k \div 2)

BBitLenOf(a) == IF a = <<>> THEN 0 ELSE LimbBits * (Len(a) - 1) + BitsOfInt(a[Len(a)])

BBitLen(x) == The({BBitLenOf(a) : a \in {x}})

\* a * 2^s
BShlOf(a, s) ==
    IF a = <<>> THEN <<>>
    ELSE [j \in 1..(s \div LimbBits) |-> 0] \o BMulSmall(a, Pow2(s % LimbBits))

BShl(x, s) == The({BShlOf(a, s) : a \in {x}})

\* floor(a / 2^s)
BShrOf(a, s) ==
    IF s \div LimbBits >= Len(a) THEN <<>>
    ELSE BDivSmall(SubSeq(a, s \div LimbBits + 1, Len(a)), Pow2(s % LimbBits)).q

BShr(x, s) == The({BShrOf(a, s) : a \in {x}})

\* q or q + 1, as twice the remainder rem2 of a division by 2^s says:
\* the nearer one, and the even one of two equally near
RoundedUp(q, rem2, s) ==
    The({IF half > 0 \/ (half = 0 /\ q # <<>> /\ q[1] % 2 = 1) THEN BAdd(q, <<1>>) ELSE q :
            half \in {BCmp(rem2, BShl(<<1>>, s))}})

BRoundShrOf(a, s) ==
    The({RoundedUp(q, BShl(BSub(a, BShl(q, s)), 1), s) : q \in {BShr(a, s)}})

\* a / 2^s rounded to the nearest integer, a tie to the even one
BRoundShr(x, s) == The({BRoundShrOf(a, s) : a \in {x}})

\* the float64 nearest to (-1)^neg * m * 2^e, for m of len bits
FRoundBits(neg, m, e, len) ==
    IF len = 0 THEN [neg |-> neg, m |-> <<>>, e |-> 0]
    ELSE IF len <= 53 THEN [neg |-> neg, m |-> BShl(m, 53 - len), e |-> e - (53 - len)]
    ELSE The({IF BBitLen(r) = 54
              THEN [neg |-> neg, m |-> BShr(r, 1), e |-> e + (len - 53) + 1]
              ELSE [neg |-> neg, m |-> r, e |-> e + (len - 53)] :
                 r \in {BRoundShr(m, len - 53)}})

FRoundOf(neg, m, e) == The({FRoundBits(neg, m, e, len) : len \in {BBitLen(m)}})

\* the float64 nearest to (-1)^neg * m * 2^e
FRound(neg, x, e) == The({FRoundOf(neg, m, e) : m \in {x}})

FZero == [neg |-> FALSE, m |-> <<>>, e |-> 0]

\* floor(a / 10^p) and whether a division on the way left a remainder
RECURSIVE BDivPow10(_, _, _)
BDivPow10(a, p, inexact) ==
    IF p = 0 THEN [q |-> a, inexact |-> inexact]
    ELSE The({BDivPow10(one.q, p - 1, inexact \/ one.r # 0) : one \in {BDivSmall(a, 10)}})

\* strconv.ParseFloat of the decimal n / 10^p: the float64 nearest to it.
\* The quotient is taken of n * 2^(64 + 4p), which leaves it more than 64
\* bits whatever p is, with a last bit that records a remainder, so that
\* rounding it once rounds the decimal.
FromDecimal(n, p) ==
    The({FRound(n < 0,
                BAdd(BShl(quot.q, 1), IF quot.inexact THEN <<1>> ELSE <<>>),
                0 - (65 + 4 * p)) :
            quot \in {BDivPow10(BShl(BFromInt(IF n < 0 THEN 0 - n ELSE n), 64 + 4 * p),
                                p, FALSE)}})

\* the JSON number h/100
Num(h) == FromDecimal(h, 2)

FNeg(a) == [a EXCEPT !.neg = ~a.neg]

\* a + b of two numbers that are not zero, from the significands ma and mb
\* written with one exponent e
FAddAligned(a, b, ma, mb, e) ==
    IF a.neg = b.neg THEN FRound(a.neg, BAdd(ma, mb), e)
    ELSE The({IF c = 0 THEN FZero
              ELSE IF c > 0 THEN FRound(a.neg, BSub(ma, mb), e)
              ELSE FRound(b.neg, BSub(mb, ma), e) :
                 c \in {BCmp(ma, mb)}})

FAddOf(a, b) ==
    IF a.m = <<>> THEN (IF b.m = <<>> THEN [FZero EXCEPT !.neg = a.neg /\ b.neg] ELSE b)
    ELSE IF b.m = <<>> THEN a
    ELSE The({FAddAligned(a, b, ma, mb, IF a.e <= b.e THEN a.e ELSE b.e) :
                 ma \in {BShl(a.m, a.e - (IF a.e <= b.e THEN a.e ELSE b.e))},
                 mb \in {BShl(b.m, b.e - (IF a.e <= b.e THEN a.e ELSE b.e))}})

\* a + b: the exact sum, rounded once
FAdd(x, y) == The({FAddOf(a, b) : a \in {x}, b \in {y}})

FSub(x, y) == The({FAddOf(a, FNeg(b)) : a \in {x}, b \in {y}})

\* a * b: the exact product, rounded once
FMul(x, y) == The({FRound(a.neg # b.neg, BMul(a.m, b.m), a.e + b.e) : a \in {x}, b \in {y}})

FPositive(a) == a.m # <<>> /\ ~a.neg

\* a == b of two float64 values (the two zeros are equal)
FEq(a, b) == (a.m = <<>> /\ b.m = <<>>) \/ a = b

Digit(k) == <<"0", "1", "2", "3", "4", "5", "6", "7", "8", "9">>[k + 1]

\* the decimal digits of a natural number
RECURSIVE Digits(_)
Digits(k) == IF k < 10 THEN <<Digit(k)>> ELSE Digits(k \div 10) \o <<Digit(k % 10)>>

Abs(k) == IF k < 0 THEN 0 - k ELSE k

\* |x| * 10^p rounded to the nearest integer, a tie to the even one (for x
\* below 2^52 in size and a result of at most two limbs)
Scaled(x, p) ==
    The({IF a.m = <<>> THEN 0
         ELSE BToInt(BRoundShr(BMul(a.m, BFromInt(Pow10(p))), 0 - a.e)) : a \in {x}})

\* the digits of fmt's %.1f from the number of tenths
TenthsText(neg, tenths) ==
    (IF neg THEN <<"-">> ELSE <<>>)
        \o Digits(tenths \div 10) \o <<".">> \o <<Digit(tenths % 10)>>

\* fmt's %.1f: the float64 rounded to one digit after the point, a tie to
\* the even digit
FmtF1(x) == The({TenthsText(a.neg, Scaled(a, 1)) : a \in {x}})

\* the digits of k written in exactly w places
RECURSIVE Padded(_, _)
Padded(k, w) == IF w = 0 THEN <<>> ELSE Padded(k \div 10, w - 1) \o <<Digit(k % 10)>>

\* the decimal k / 10^p, for the least number of places p, from p up, at
\* which the decimal nearest to a parses back to a
RECURSIVE ShortestDecimal(_, _)
ShortestDecimal(a, p) ==
    The({IF The({d.m = a.m /\ d.e = a.e : d \in {FromDecimal(k, p)}})
         THEN [k |-> k, p |-> p]
         ELSE ShortestDecimal(a, p + 1) :
            k \in {Scaled(a, p)}})

\* strconv's %f of the shortest decimal k / 10^p
DecimalText(neg, k, p) ==
    (IF neg THEN <<"-">> ELSE <<>>) \o Digits(k \div Pow10(p))
        \o (IF p = 0 THEN <<>> ELSE <<".">> \o Padded(k % Pow10(p), p))

\* digits without their trailing zeros
RECURSIVE TrimZeros(_)
TrimZeros(ds) ==
    IF Len(ds) > 1 /\ ds[Len(ds)] = "0" THEN TrimZeros(SubSeq(ds, 1, Len(ds) - 1)) ELSE ds

\* strconv's %e of the digits ds with the decimal exponent exp: one digit,
\* the others after a point, and the exponent signed, in two places at least
ExponentText(neg, ds, exp) ==
    (IF neg THEN <<"-">> ELSE <<>>) \o <<ds[1]>>
        \o (IF Len(ds) > 1 THEN <<".">> \o Tail(ds) ELSE <<>>)
        \o <<"e", IF exp < 0 THEN "-" ELSE "+">>
        \o (IF Abs(exp) < 10 THEN <<"0">> ELSE <<>>) \o Digits(Abs(exp))

\* strconv's %g of the shortest decimal k / 10^p: with x the decimal
\* exponent of the first digit, %e when x < -4 or x >= 6 and %f otherwise
ShortestText(neg, k, p) ==
    IF k = 0 THEN (IF neg THEN <<"-">> ELSE <<>>) \o <<"0">>
    ELSE The({IF x < 0 - 4 \/ x >= 6
              THEN ExponentText(neg, TrimZeros(Digits(k)), x)
              ELSE DecimalText(neg, k, p) :
                 x \in {Len(Digits(k)) - p - 1}})

\* fmt's %v of a float64: strconv's %g of the shortest decimal that parses
\* back to the value (for values whose shortest decimal has at most nine
\* digits)
FmtV(x) ==
    The({The({ShortestText(a.neg, d.k, d.p) : d \in {ShortestDecimal(a, 0)}}) : a \in {x}})

-----------------------------------------------------------------------------
(* The unit-enum client, weather.go:1-393 *)

\* ConvertTemp with the Fahrenheit case taking off 273.15 as the Celsius case does
ConvertTemp_Offset27315(c, kelvin) ==
    CASE c.tempUnit = TempUnitCelsius -> FSub(kelvin, FromDecimal(27315, 2))
      [] c.tempUnit = TempUnitFahrenheit ->
            FAdd(FMul(FromDecimal(18, 1), FSub(kelvin, FromDecimal(27315, 2))),
                 FromDecimal(32, 0))
      [] c.tempUnit = TempUnitKelvin -> kelvin
      [] OTHER -> FZero

\* ConvertTemp: Kelvin to the client's temperature unit; each operation of
\* the expression rounds to float64 on its own
ConvertTemp(c, kelvin) ==
    CASE c.tempUnit = TempUnitCelsius -> FSub(kelvin, FromDecimal(27315, 2))
      [] c.tempUnit = TempUnitFahrenheit ->
            FAdd(FMul(FromDecimal(18, 1), FSub(kelvin, FromDecimal(273, 0))),
                 FromDecimal(32, 0))
      [] c.tempUnit = TempUnitKelvin -> kelvin
      [] OTHER -> FZero

\* ConvertSpeed with the miles case converting to knots
ConvertSpeed_Knots(c, meters) ==
    CASE c.speedUnit = SpeedUnitMeters -> meters
      [] c.speedUnit = SpeedUnitMiles -> FMul(meters, FromDecimal(1943844, 6))
      [] OTHER -> FZero

\* ConvertSpeed: meters/second to the client's speed unit
ConvertSpeed(c, meters) ==
    CASE c.speedUnit = SpeedUnitMeters -> meters
      [] c.speedUnit = SpeedUnitMiles -> FMul(meters, FromDecimal(2236936, 6))
      [] OTHER -> FZero

\* the URL of Forecast with the cnt parameter left out of the format string
ForecastURL_NoCnt(c, location) ==
    Concat(<<c.APIHost, c.APIURI, <<"/", "?", "q", "=">>, QueryEscape(location),
             <<"&", "a", "p", "p", "i", "d", "=">>, c.APIKey>>)

\* the URL that Forecast forms inline
ForecastURL(c, location) ==
    Concat(<<c.APIHost, c.APIURI, <<"/", "?", "q", "=">>, QueryEscape(location),
             <<"&", "a", "p", "p", "i", "d", "=">>, c.APIKey,
             <<"&", "c", "n", "t", "=", "1">>>>)

-----------------------------------------------------------------------------
(* The Units-string client, weather.go:395-592 *)

\* the query options with the "standard" case of the switch left out
APIQueryOptions_NoStandardCase(c) ==
    <<"&", "u", "n", "i", "t", "s", "=">> \o ToLower(c.Units)
        \o <<"&", "c", "n", "t", "=", "1">>

\* the query options with cnt written before the units
APIQueryOptions_CntFirst(c) ==
    <<"&", "c", "n", "t", "=", "1">>
        \o (IF ToLower(c.Units) = Standard
            THEN <<>>
            ELSE <<"&", "u", "n", "i", "t", "s", "=">> \o ToLower(c.Units))

\* APIQueryOptions as formAPIUrl sets it
APIQueryOptions(c) ==
    (IF ToLower(c.Units) = Standard
     THEN <<>>
     ELSE <<"&", "u", "n", "i", "t", "s", "=">> \o ToLower(c.Units))
        \o <<"&", "c", "n", "t", "=", "1">>

formAPIUrl(c, city) ==
    Concat(<<c.APIHost, c.APIUri, <<"/", "?", "q", "=">>, QueryEscape(city),
             <<"&", "a", "p", "p", "i", "d", "=">>, c.APIKey, APIQueryOptions(c)>>)

speedUnits(c) ==
    CASE ToLower(c.Units) = Standard -> <<"m", "/", "s">>
      [] ToLower(c.Units) = Metric -> <<"m", "/", "s">>
      [] ToLower(c.Units) = Imperial -> <<"M", "P", "H">>
      [] OTHER -> <<"u", "n", "k", "n", "o", "w", "n">>

tempUnits(c) ==
    CASE ToLower(c.Units) = Standard -> <<"º", "K">>
      [] ToLower(c.Units) = Metric -> <<"º", "C">>
      [] ToLower(c.Units) = Imperial -> <<"º", "F">>
      [] OTHER -> <<"u", "n", "k", "n", "o", "w", "n">>

-----------------------------------------------------------------------------
(* The weatherCaster client, weathercaster.go and unnamed/part_010 *)

FormUrl(c, city) ==
    Concat(<<<<"h", "t", "t", "p", "s", ":", "/", "/">>, c.ApiHost, c.ApiUri,
             <<"/", "?", "q", "=">>, QueryEscape(city),
             <<"&", "a", "p", "p", "i", "d", "=">>, c.ApiKey, c.ApiQueryOptions>>)

formAPIUrl_WC(c, city) ==
    Concat(<<<<"h", "t", "t", "p", "s", ":", "/", "/">>, c.ApiHost, c.ApiUri,
             <<"/", "?", "q", "=">>, QueryEscape(city),
             <<"&", "a", "p", "p", "i", "d", "=">>, c.ApiKey, c.ApiQueryOptions>>)

-----------------------------------------------------------------------------
(* Errors.  An error value records what its message is built from. *)

NoErr == [kind |-> "nil"]
\* the *url.Error of http.Client.Get, whose text quotes the request URL
ErrGet(url) == [kind |-> "get", url |-> url]
ErrRead == [kind |-> "read"]
ErrDecode == [kind |-> "decode"]

-----------------------------------------------------------------------------
(* The upstream response.                                                  *)
(*   fail   : "none", or the step of the exchange that failed              *)
(*   status : the HTTP status code                                         *)
(*   body   : [valid, list]; valid is FALSE for bytes that are not JSON,   *)
(*            list is Nil when the document has no "list" key and          *)
(*            <<entries>> when it has one                                  *)
(* An entry is [weather, main, wind] with weather Nil (key missing) or     *)
(* <<a sequence of [description]>>, main = [temp, feels_like, humidity],   *)
(* wind = [speed]; every leaf is Nil (key missing) or <<v>>, numbers in    *)
(* hundredths.                                                             *)
(***************************************************************************)

\* the items of an array key: none when the key is missing
Items(a) == IF a = Nil THEN <<>> ELSE a[1]

\* json.Unmarshal of a number key into a *float64
PtrFloat(f) == IF f = Nil THEN Nil ELSE Some(Num(f[1]))
\* json.Unmarshal of a number key into a float64
ValFloat(f) == IF f = Nil THEN Num(0) ELSE Num(f[1])
\* json.Unmarshal of a string key into a *string
PtrString(f) == IF f = Nil THEN Nil ELSE Some(f[1])
\* json.Unmarshal of a string key into a string
ValString(f) == IF f = Nil THEN <<>> ELSE f[1]

\* json.Unmarshal of one list entry into the element type of owmResponse.List
owmEntry(e) ==
    [Weather |-> [i \in 1..Len(Items(e.weather)) |->
                    [Description |-> PtrString(Items(e.weather)[i].description)]],
     Main |-> [Temp |-> PtrFloat(e.main.temp),
               Feels_like |-> PtrFloat(e.main.feels_like),
               Humidity |-> PtrFloat(e.main.humidity)],
     Wind |-> [Speed |-> PtrFloat(e.wind.speed)]]

\* json.Unmarshal(data, &ar) with ar a fresh owmResponse
owmResponse(body) ==
    IF ~body.valid THEN [err |-> ErrDecode, ar |-> [List |-> <<>>]]
    ELSE [err |-> NoErr,
          ar |-> [List |-> IF body.list = Nil THEN <<>>
                           ELSE [i \in 1..Len(body.list[1]) |-> owmEntry(body.list[1][i])]]]

\* json.Unmarshal of one list entry into the element type of APIResponse.List
APIEntry(e) ==
    [Weather |-> [i \in 1..Len(Items(e.weather)) |->
                    [Description |-> ValString(Items(e.weather)[i].description)]],
     Main |-> [Temp |-> ValFloat(e.main.temp),
               Feels_like |-> ValFloat(e.main.feels_like),
               Humidity |-> ValFloat(e.main.humidity)],
     Wind |-> [Speed |-> ValFloat(e.wind.speed)]]

\* json.Unmarshal(data, &apiRes) with apiRes a fresh APIResponse
APIResponse(body) ==
    IF ~body.valid THEN [err |-> ErrDecode, ar |-> [List |-> <<>>]]
    ELSE [err |-> NoErr,
          ar |-> [List |-> IF body.list = Nil THEN <<>>
                           ELSE [i \in 1..Len(body.list[1]) |-> APIEntry(body.list[1][i])]]]

-----------------------------------------------------------------------------
(* The unit-enum client: queryAPI, formatForecast, Forecast *)

\* conditions{}
NoConditions ==
    [description |-> Nil, temperature |-> Nil, feelsLike |-> Nil,
     humidity |-> Nil, windSpeed |-> Nil]

\* queryAPI with the check of List[0].Weather left out, reading the description
\* of a missing element as nil
queryAPI_NoWeatherCheck(c, url, resp) ==
    IF resp.fail = "get"
    THEN [cond |-> NoConditions, err |-> ErrGet(url), unmarshalled |-> FALSE,
                   requests |-> <<url>>]
    ELSE IF resp.fail = "read"
    THEN [cond |-> NoConditions, err |-> ErrRead, unmarshalled |-> FALSE,
                   requests |-> <<url>>]
    ELSE IF resp.status # 200
    THEN [cond |-> NoConditions,
          err |-> [kind |-> "status", status |-> resp.status, body |-> resp.body],
          unmarshalled |-> FALSE,
                   requests |-> <<url>>]
    ELSE The({IF d.err # NoErr
             THEN [cond |-> NoConditions, err |-> d.err, unmarshalled |-> TRUE,
                   requests |-> <<url>>]
             ELSE IF Len(d.ar.List) = 0
             THEN [cond |-> NoConditions, err |-> [kind |-> "emptyList"],
                   unmarshalled |-> TRUE,
                   requests |-> <<url>>]
             ELSE [cond |-> [description |-> IF Len(d.ar.List[1].Weather) = 0 THEN Nil
                                             ELSE d.ar.List[1].Weather[1].Description,
                             temperature |-> d.ar.List[1].Main.Temp,
                             feelsLike |-> d.ar.List[1].Main.Feels_like,
                             humidity |-> d.ar.List[1].Main.Humidity,
                             windSpeed |-> d.ar.List[1].Wind.Speed],
                   err |-> NoErr, unmarshalled |-> TRUE,
                   requests |-> <<url>>] :
                 d \in {owmResponse(resp.body)}})

\* queryAPI calling c.HTTPClient.Get a second time when the first call fails
queryAPI_GetTwice(c, url, resp) ==
    IF resp.fail = "get"
    THEN [cond |-> NoConditions, err |-> ErrGet(url), unmarshalled |-> FALSE,
                   requests |-> <<url, url>>]
    ELSE IF resp.fail = "read"
    THEN [cond |-> NoConditions, err |-> ErrRead, unmarshalled |-> FALSE,
                   requests |-> <<url>>]
    ELSE IF resp.status # 200
    THEN [cond |-> NoConditions,
          err |-> [kind |-> "status", status |-> resp.status, body |-> resp.body],
          unmarshalled |-> FALSE,
                   requests |-> <<url>>]
    ELSE The({IF d.err # NoErr
             THEN [cond |-> NoConditions, err |-> d.err, unmarshalled |-> TRUE,
                   requests |-> <<url>>]
             ELSE IF Len(d.ar.List) = 0
             THEN [cond |-> NoConditions, err |-> [kind |-> "emptyList"],
                   unmarshalled |-> TRUE,
                   requests |-> <<url>>]
             ELSE IF Len(d.ar.List[1].Weather) = 0
             THEN [cond |-> NoConditions, err |-> [kind |-> "emptyWeather"],
                   unmarshalled |-> TRUE,
                   requests |-> <<url>>]
             ELSE [cond |-> [description |-> d.ar.List[1].Weather[1].Description,
                             temperature |-> d.ar.List[1].Main.Temp,
                             feelsLike |-> d.ar.List[1].Main.Feels_like,
                             humidity |-> d.ar.List[1].Main.Humidity,
                             windSpeed |-> d.ar.List[1].Wind.Speed],
                   err |-> NoErr, unmarshalled |-> TRUE,
                   requests |-> <<url>>] :
                 d \in {owmResponse(resp.body)}})

\* queryAPI taking the temperature from the last entry of the list
queryAPI_LastEntryTemp(c, url, resp) ==
    IF resp.fail = "get"
    THEN [cond |-> NoConditions, err |-> ErrGet(url), unmarshalled |-> FALSE,
                   requests |-> <<url>>]
    ELSE IF resp.fail = "read"
    THEN [cond |-> NoConditions, err |-> ErrRead, unmarshalled |-> FALSE,
                   requests |-> <<url>>]
    ELSE IF resp.status # 200
    THEN [cond |-> NoConditions,
          err |-> [kind |-> "status", status |-> resp.status, body |-> resp.body],
          unmarshalled |-> FALSE,
                   requests |-> <<url>>]
    ELSE The({IF d.err # NoErr
             THEN [cond |-> NoConditions, err |-> d.err, unmarshalled |-> TRUE,
                   requests |-> <<url>>]
             ELSE IF Len(d.ar.List) = 0
             THEN [cond |-> NoConditions, err |-> [kind |-> "emptyList"],
                   unmarshalled |-> TRUE,
                   requests |-> <<url>>]
             ELSE IF Len(d.ar.List[1].Weather) = 0
             THEN [cond |-> NoConditions, err |-> [kind |-> "emptyWeather"],
                   unmarshalled |-> TRUE,
                   requests |-> <<url>>]
             ELSE [cond |-> [description |-> d.ar.List[1].Weather[1].Description,
                             temperature |-> d.ar.List[Len(d.ar.List)].Main.Temp,
                             feelsLike |-> d.ar.List[1].Main.Feels_like,
                             humidity |-> d.ar.List[1].Main.Humidity,
                             windSpeed |-> d.ar.List[1].Wind.Speed],
                   err |-> NoErr, unmarshalled |-> TRUE,
                   requests |-> <<url>>] :
                 d \in {owmResponse(resp.body)}})

\* queryAPI.  unmarshalled records whether json.Unmarshal was called and
\* requests the URLs c.HTTPClient.Get was called with, in order.
queryAPI(c, url, resp) ==
    IF resp.fail = "get"
    THEN [cond |-> NoConditions, err |-> ErrGet(url), unmarshalled |-> FALSE,
                   requests |-> <<url>>]
    ELSE IF resp.fail = "read"
    THEN [cond |-> NoConditions, err |-> ErrRead, unmarshalled |-> FALSE,
                   requests |-> <<url>>]
    ELSE IF resp.status # 200
    THEN [cond |-> NoConditions,
          err |-> [kind |-> "status", status |-> resp.status, body |-> resp.body],
          unmarshalled |-> FALSE,
                   requests |-> <<url>>]
    ELSE The({IF d.err # NoErr
             THEN [cond |-> NoConditions, err |-> d.err, unmarshalled |-> TRUE,
                   requests |-> <<url>>]
             ELSE IF Len(d.ar.List) = 0
             THEN [cond |-> NoConditions, err |-> [kind |-> "emptyList"],
                   unmarshalled |-> TRUE,
                   requests |-> <<url>>]
             ELSE IF Len(d.ar.List[1].Weather) = 0
             THEN [cond |-> NoConditions, err |-> [kind |-> "emptyWeather"],
                   unmarshalled |-> TRUE,
                   requests |-> <<url>>]
             ELSE [cond |-> [description |-> d.ar.List[1].Weather[1].Description,
                             temperature |-> d.ar.List[1].Main.Temp,
                             feelsLike |-> d.ar.List[1].Main.Feels_like,
                             humidity |-> d.ar.List[1].Main.Humidity,
                             windSpeed |-> d.ar.List[1].Wind.Speed],
                   err |-> NoErr, unmarshalled |-> TRUE,
                   requests |-> <<url>>] :
                 d \in {owmResponse(resp.body)}})

\* the label of the temperature unit, as formatForecast looks it up
tempUnitOf(c) == tempUnitLabel(c.tempUnit)
\* the label of the speed unit, as formatForecast looks it up
speedUnitOf(c) == speedUnitLabel(c.speedUnit)

\* the four optional clauses of formatForecast
temperatureClause(c, w) ==
    IF w.temperature # Nil
    THEN <<",", " ", "t", "e", "m", "p", " ">>
            \o FmtF1(ConvertTemp(c, w.temperature[1])) \o tempUnitOf(c)
    ELSE <<>>
feelsLikeClause(c, w) ==
    IF w.feelsLike # Nil
    THEN <<",", " ", "f", "e", "e", "l", "s", " ", "l", "i", "k", "e", " ">>
            \o FmtF1(ConvertTemp(c, w.feelsLike[1])) \o tempUnitOf(c)
    ELSE <<>>
humidityClause(c, w) ==
    IF w.humidity # Nil
    THEN <<",", " ", "h", "u", "m", "i", "d", "i", "t", "y", " ">>
            \o FmtF1(w.humidity[1]) \o <<"%">>
    ELSE <<>>
windClause(c, w) ==
    IF w.windSpeed # Nil
    THEN <<",", " ", "w", "i", "n", "d", " ">>
            \o FmtF1(ConvertSpeed(c, w.windSpeed[1])) \o <<" ">> \o speedUnitOf(c)
    ELSE <<>>

\* formatForecast.  *w.description of a nil pointer is a run-time panic.
formatForecast(c, w) ==
    IF w.description = Nil
    THEN [out |-> <<>>, err |-> NoErr, panic |-> TRUE]
    ELSE [out |-> Concat(<<w.description[1], temperatureClause(c, w), feelsLikeClause(c, w),
                           humidityClause(c, w), windClause(c, w)>>),
          err |-> NoErr, panic |-> FALSE]

\* Forecast, returning the error of queryAPI as it got it
Forecast_BareError(c, location, resp) ==
    LET url == ForecastURL(c, location)
    IN  The({IF q.err # NoErr
             THEN [url |-> url, unmarshalled |-> q.unmarshalled, requests |-> q.requests, formatted |-> FALSE,
                   cond |-> q.cond, out |-> <<>>,
                   err |-> q.err,
                   panic |-> FALSE]
             ELSE The({[url |-> url, unmarshalled |-> q.unmarshalled, requests |-> q.requests, formatted |-> TRUE,
                       cond |-> q.cond, out |-> f.out, err |-> f.err, panic |-> f.panic] :
                      f \in {formatForecast(c, q.cond)}}) :
                 q \in {queryAPI(c, url, resp)}})

\* Forecast
Forecast(c, location, resp) ==
    LET url == ForecastURL(c, location)
    IN  The({IF q.err # NoErr
             THEN [url |-> url, unmarshalled |-> q.unmarshalled, requests |-> q.requests, formatted |-> FALSE,
                   cond |-> q.cond, out |-> <<>>,
                   err |-> [kind |-> "forecast", location |-> location, cause |-> q.err],
                   panic |-> FALSE]
             ELSE The({[url |-> url, unmarshalled |-> q.unmarshalled, requests |-> q.requests, formatted |-> TRUE,
                       cond |-> q.cond, out |-> f.out, err |-> f.err, panic |-> f.panic] :
                      f \in {formatForecast(c, q.cond)}}) :
                 q \in {queryAPI(c, url, resp)}})

-----------------------------------------------------------------------------
(* The Units-string client: queryAPI, formatForecast, Forecast *)

queryAPI_U(c, url, resp) ==
    IF resp.fail = "get"
    THEN [ar |-> [List |-> <<>>], err |-> ErrGet(url), unmarshalled |-> FALSE,
                   requests |-> <<url>>]
    ELSE IF resp.fail = "read"
    THEN [ar |-> [List |-> <<>>], err |-> ErrRead, unmarshalled |-> FALSE,
                   requests |-> <<url>>]
    ELSE IF resp.status # 200
    THEN [ar |-> [List |-> <<>>],
          err |-> [kind |-> "status", status |-> resp.status, body |-> resp.body],
          unmarshalled |-> FALSE,
                   requests |-> <<url>>]
    ELSE The({IF d.err # NoErr
             THEN [ar |-> [List |-> <<>>], err |-> d.err, unmarshalled |-> TRUE,
                   requests |-> <<url>>]
             ELSE IF Len(d.ar.List) = 0
             THEN [ar |-> [List |-> <<>>], err |-> [kind |-> "emptyList"],
                   unmarshalled |-> TRUE,
                   requests |-> <<url>>]
             ELSE IF Len(d.ar.List[1].Weather) = 0
             THEN [ar |-> [List |-> <<>>], err |-> [kind |-> "emptyWeather"],
                   unmarshalled |-> TRUE,
                   requests |-> <<url>>]
             ELSE [ar |-> d.ar, err |-> NoErr, unmarshalled |-> TRUE,
                   requests |-> <<url>>] :
                 d \in {APIResponse(resp.body)}})

formatForecast_U(c, ar) ==
    LET e == ar.List[1]
    IN  [out |-> Concat(<<e.Weather[1].Description,
                          <<",", " ", "t", "e", "m", "p", " ">>,
                          FmtF1(e.Main.Temp), <<" ">>, tempUnits(c),
                          <<" ", "(", "f", "e", "e", "l", "s", " ", "l", "i", "k", "e", " ">>,
                          FmtF1(e.Main.Feels_like), <<" ">>, tempUnits(c), <<")">>,
                          <<",", " ", "h", "u", "m", "i", "d", "i", "t", "y", " ">>,
                          FmtF1(e.Main.Humidity), <<"%">>,
                          IF FPositive(e.Wind.Speed)
                          THEN <<",", " ", "w", "i", "n", "d", " ">> \o FmtV(e.Wind.Speed)
                                  \o <<" ">> \o speedUnits(c)
                          ELSE <<>> >>),
         err |-> NoErr, panic |-> FALSE]

Forecast_U(c, city, resp) ==
    LET url == formAPIUrl(c, city)
    IN  The({IF q.err # NoErr
             THEN [url |-> url, unmarshalled |-> q.unmarshalled, requests |-> q.requests, formatted |-> FALSE,
                   ar |-> q.ar, out |-> <<>>,
                   err |-> [kind |-> "forecast", location |-> city, cause |-> q.err],
                   panic |-> FALSE]
             ELSE The({[url |-> url, unmarshalled |-> q.unmarshalled, requests |-> q.requests, formatted |-> TRUE,
                       ar |-> q.ar, out |-> f.out, err |-> f.err, panic |-> f.panic] :
                      f \in {formatForecast_U(c, q.ar)}}) :
                 q \in {queryAPI_U(c, url, resp)}})

-----------------------------------------------------------------------------
(* The weatherCaster client: HttpGet / queryAPI, ParseJson, GetForecast *)

\* A Go slice the client keeps is [elems, spare]: elems are its elements and
\* spare is what its backing array still holds between len and cap.
\* json.Unmarshal of a JSON array into such a slice decodes item i into the
\* i-th slot of the backing array as that slot is, without zeroing it first,
\* grows the array when the items outnumber the slots, cuts the length to
\* the number of items, and installs a new empty slice for an empty array.
DecodeSlice(elems, spare, decoded) ==
    LET backing == elems \o spare
        n       == Len(decoded)
    IN  IF n = 0 THEN [elems |-> <<>>, spare |-> <<>>]
        ELSE [elems |-> decoded,
              spare |-> IF n < Len(backing) THEN SubSeq(backing, n + 1, Len(backing))
                        ELSE <<>>]

\* what item i is decoded into: the i-th slot of the backing array, or a zero
\* element when the array has to grow
SlotBefore(elems, spare, i, zero) ==
    IF i <= Len(elems \o spare) THEN (elems \o spare)[i] ELSE zero

\* the zero ApiResponseListWeather and the zero ApiResponseList
ZeroWeather == [Description |-> <<>>]
ZeroEntry == [Weather |-> <<>>, spare |-> <<>>]

\* json.Unmarshal of one weather object into an ApiResponseListWeather that
\* holds old: a missing key leaves the field as it is
MergeWeather(old, w) ==
    [Description |-> IF w.description = Nil THEN old.Description ELSE w.description[1]]

\* json.Unmarshal of one list entry into an ApiResponseList that holds old:
\* without a "weather" key the Weather slice stays as it is
MergeEntry(old, e) ==
    IF e.weather = Nil THEN old
    ELSE LET d == DecodeSlice(old.Weather, old.spare,
                              [i \in 1..Len(e.weather[1]) |->
                                   MergeWeather(SlotBefore(old.Weather, old.spare, i,
                                                           ZeroWeather),
                                                e.weather[1][i])])
         IN  [Weather |-> d.elems, spare |-> d.spare]

\* HttpGet of weathercaster.go: the body as a string, or an error
HttpGet(c, url, resp) ==
    IF resp.fail = "get" THEN [body |-> Nil, err |-> ErrGet(url), requests |-> <<url>>]
    ELSE IF resp.fail = "read" THEN [body |-> Nil, err |-> ErrRead, requests |-> <<url>>]
    ELSE IF resp.status >= 400
    THEN [body |-> Nil,
          err |-> [kind |-> "status", status |-> resp.status, body |-> resp.body],
          requests |-> <<url>>]
    ELSE [body |-> Some(resp.body), err |-> NoErr, requests |-> <<url>>]

\* queryAPI of unnamed/part_010
queryAPI_WC(c, url, resp) ==
    IF resp.fail = "get" THEN [body |-> Nil, err |-> ErrGet(url), requests |-> <<url>>]
    ELSE IF resp.fail = "read" THEN [body |-> Nil, err |-> ErrRead, requests |-> <<url>>]
    ELSE IF resp.status >= 400
    THEN [body |-> Nil,
          err |-> [kind |-> "status", status |-> resp.status, body |-> resp.body],
          requests |-> <<url>>]
    ELSE [body |-> Some(resp.body), err |-> NoErr, requests |-> <<url>>]

\* parseJson: json.Unmarshal(jsonBytes, &c.response) into the response the
\* client already holds.  Invalid JSON is refused before anything is written;
\* a document without a "list" key leaves List as it was.
parseJson(c, j) ==
    IF ~j.valid THEN [response |-> c.response, err |-> ErrDecode]
    ELSE IF j.list = Nil THEN [response |-> c.response, err |-> NoErr]
    ELSE LET d == DecodeSlice(c.response.List, c.response.spare,
                              [i \in 1..Len(j.list[1]) |->
                                   MergeEntry(SlotBefore(c.response.List, c.response.spare,
                                                         i, ZeroEntry),
                                              j.list[1][i])])
         IN  [response |-> [List |-> d.elems, spare |-> d.spare], err |-> NoErr]

\* GetForecast: c.response.List[0].Weather[0].Description, a run-time panic
\* when either index is out of range
GetForecast(c) ==
    IF Len(c.response.List) = 0 THEN [out |-> <<>>, panic |-> TRUE]
    ELSE IF Len(c.response.List[1].Weather) = 0 THEN [out |-> <<>>, panic |-> TRUE]
    ELSE [out |-> c.response.List[1].Weather[1].Description, panic |-> FALSE]

\* ParseJson of weathercaster.go, the exported form of parseJson with the
\* same body
ParseJson(c, j) == parseJson(c, j)

\* GetDescription of weathercaster.go: c.response.List[0].Weather[0].Description,
\* a run-time panic when either index is out of range
GetDescription(c) ==
    IF Len(c.response.List) = 0 THEN [out |-> <<>>, panic |-> TRUE]
    ELSE IF Len(c.response.List[1].Weather) = 0 THEN [out |-> <<>>, panic |-> TRUE]
    ELSE [out |-> c.response.List[1].Weather[1].Description, panic |-> FALSE]

\* ForecastByCity
ForecastByCity(c, city, resp) ==
    LET url == formAPIUrl_WC(c, city)
        q   == queryAPI_WC(c, url, resp)
    IN  IF q.err # NoErr
        THEN [url |-> url, requests |-> q.requests, unmarshalled |-> FALSE, response |-> c.response, out |-> <<>>,
              err |-> [kind |-> "forecast", location |-> city, cause |-> q.err],
              panic |-> FALSE]
        ELSE LET p == parseJson(c, q.body[1])
             IN  IF p.err # NoErr
                 THEN [url |-> url, requests |-> q.requests, unmarshalled |-> TRUE, response |-> p.response,
                       out |-> <<>>,
                       err |-> [kind |-> "parse", location |-> city, cause |-> p.err],
                       panic |-> FALSE]
                 ELSE LET g == GetForecast([c EXCEPT !.response = p.response])
                      IN  [url |-> url, requests |-> q.requests, unmarshalled |-> TRUE, response |-> p.response,
                           out |-> g.out, err |-> NoErr, panic |-> g.panic]

-----------------------------------------------------------------------------
(* Construction and configuration *)

\* the http.Client the constructors install
DefaultHTTPClient == "timeout3s"

\* SetSpeedUnit falling back to the default unit when the unit is out of range
SetSpeedUnit_ResetOnError(c, u) ==
    IF u \in DOMAIN speedUnitName
    THEN [c |-> [c EXCEPT !.speedUnit = u], err |-> NoErr]
    ELSE [c |-> [c EXCEPT !.speedUnit = SpeedUnitMiles],
          err |-> [kind |-> "speedUnitRange", unit |-> u]]

\* SetSpeedUnit
SetSpeedUnit(c, u) ==
    IF u \in DOMAIN speedUnitName
    THEN [c |-> [c EXCEPT !.speedUnit = u], err |-> NoErr]
    ELSE [c |-> c, err |-> [kind |-> "speedUnitRange", unit |-> u]]

\* SetTempUnit storing the unit without looking it up
SetTempUnit_NoValidation(c, u) ==
    [c |-> [c EXCEPT !.tempUnit = u], err |-> NoErr]

\* SetTempUnit
SetTempUnit(c, u) ==
    IF u \in DOMAIN tempUnitName
    THEN [c |-> [c EXCEPT !.tempUnit = u], err |-> NoErr]
    ELSE [c |-> c, err |-> [kind |-> "tempUnitRange", unit |-> u]]

\* a functional option of the unit-enum client applied to c; an option is
\* [name, unit, text] with unit or text its argument
clientOption(c, o) ==
    CASE o.name = "WithAPIHost" -> [c |-> [c EXCEPT !.APIHost = o.text], err |-> NoErr]
      [] o.name = "WithAPIURI" -> [c |-> [c EXCEPT !.APIURI = o.text], err |-> NoErr]
      [] o.name = "WithHTTPClient" -> [c |-> [c EXCEPT !.HTTPClient = o.text], err |-> NoErr]
      [] o.name = "WithSpeedUnit" -> SetSpeedUnit(c, o.unit)
      [] o.name = "WithTempUnit" -> SetTempUnit(c, o.unit)

\* the option loop of NewClient passing over an option that fails
RECURSIVE applyOptions_SkipFailing(_, _)
applyOptions_SkipFailing(c, options) ==
    IF options = <<>> THEN [c |-> Some(c), err |-> NoErr]
    ELSE LET r == clientOption(c, Head(options))
         IN  applyOptions_SkipFailing(r.c, Tail(options))

\* the option loop of NewClient: (client, nil), or (nil, err) at the first
\* option that fails
RECURSIVE applyOptions(_, _)
applyOptions(c, options) ==
    IF options = <<>> THEN [c |-> Some(c), err |-> NoErr]
    ELSE LET r == clientOption(c, Head(options))
         IN  IF r.err # NoErr THEN [c |-> Nil, err |-> r.err]
             ELSE applyOptions(r.c, Tail(options))

\* NewClient of the unit-enum client
NewClient(APIKey, options) ==
    applyOptions([variant |-> "enum", APIKey |-> APIKey, APIHost |-> DefaultAPIHost,
                  APIURI |-> DefaultAPIURI, speedUnit |-> 0, tempUnit |-> 0,
                  HTTPClient |-> DefaultHTTPClient],
                 options)

\* a functional option of the Units-string client applied to c
ClientOption_U(c, o) ==
    CASE o.name = "WithAPIHost" -> [c EXCEPT !.APIHost = o.text]
      [] o.name = "WithAPIUri" -> [c EXCEPT !.APIUri = o.text]
      [] o.name = "WithHTTPClient" -> [c EXCEPT !.HTTPClient = o.text]
      [] o.name = "WithUnits" -> [c EXCEPT !.Units = o.text]

RECURSIVE applyOptions_U(_, _)
applyOptions_U(c, options) ==
    IF options = <<>> THEN c
    ELSE applyOptions_U(ClientOption_U(c, Head(options)), Tail(options))

\* NewClient of the Units-string client: it cannot fail
NewClient_U(APIKey, options) ==
    applyOptions_U([variant |-> "units", APIKey |-> APIKey, APIHost |-> DefaultAPIHost,
                    APIUri |-> DefaultAPIURI, Units |-> DefaultUnits,
                    HTTPClient |-> DefaultHTTPClient],
                   options)

\* NewClient of the weatherCaster client
NewClient_WC(apiKey) ==
    [variant |-> "caster", ApiKey |-> apiKey, ApiHost |-> CasterApiHost,
     ApiUri |-> DefaultAPIURI, ApiQueryOptions |-> CasterApiQueryOptions,
     response |-> [List |-> <<>>, spare |-> <<>>]]

-----------------------------------------------------------------------------
(* The command line: ProcessCLISpeedUnit, ProcessCLITempUnit, RunCLI, main *)

\* ProcessCLISpeedUnit comparing the string as it is, without ToLower
ProcessCLISpeedUnit_CaseSensitive(s) ==
    IF s = <<>> THEN [u |-> SpeedUnitMiles, err |-> NoErr]
    ELSE IF s \in {<<"m", "i">>, <<"m", "i", "l", "e">>, <<"m", "i", "l", "e", "s">>}
    THEN [u |-> SpeedUnitMiles, err |-> NoErr]
    ELSE IF s \in {<<"m">>, <<"m", "e", "t", "e", "r">>, <<"m", "e", "t", "e", "r", "s">>}
    THEN [u |-> SpeedUnitMeters, err |-> NoErr]
    ELSE [u |-> 0, err |-> [kind |-> "speedUnitInvalid", text |-> s]]

\* ProcessCLISpeedUnit: the unit, or an error that quotes the string
ProcessCLISpeedUnit(s) ==
    LET t == ToLower(s)
    IN  IF t = <<>> THEN [u |-> SpeedUnitMiles, err |-> NoErr]
        ELSE IF t \in {<<"m", "i">>, <<"m", "i", "l", "e">>, <<"m", "i", "l", "e", "s">>}
        THEN [u |-> SpeedUnitMiles, err |-> NoErr]
        ELSE IF t \in {<<"m">>, <<"m", "e", "t", "e", "r">>, <<"m", "e", "t", "e", "r", "s">>}
        THEN [u |-> SpeedUnitMeters, err |-> NoErr]
        ELSE [u |-> 0, err |-> [kind |-> "speedUnitInvalid", text |-> s]]

\* ProcessCLITempUnit with Kelvin for the empty string
ProcessCLITempUnit_EmptyIsKelvin(s) ==
    LET t == ToLower(s)
    IN  IF t = <<>> THEN [u |-> TempUnitKelvin, err |-> NoErr]
        ELSE IF t \in {<<"c">>, <<"c", "e", "l", "s", "i", "u", "s">>}
        THEN [u |-> TempUnitCelsius, err |-> NoErr]
        ELSE IF t \in {<<"f">>, <<"f", "a", "h", "r", "e", "n", "h", "e", "i", "t">>}
        THEN [u |-> TempUnitFahrenheit, err |-> NoErr]
        ELSE IF t \in {<<"k">>, <<"k", "e", "l", "v", "i", "n">>}
        THEN [u |-> TempUnitKelvin, err |-> NoErr]
        ELSE [u |-> 0, err |-> [kind |-> "tempUnitInvalid", text |-> s]]

\* ProcessCLITempUnit: the unit, or an error that quotes the string
ProcessCLITempUnit(s) ==
    LET t == ToLower(s)
    IN  IF t = <<>> THEN [u |-> TempUnitFahrenheit, err |-> NoErr]
        ELSE IF t \in {<<"c">>, <<"c", "e", "l", "s", "i", "u", "s">>}
        THEN [u |-> TempUnitCelsius, err |-> NoErr]
        ELSE IF t \in {<<"f">>, <<"f", "a", "h", "r", "e", "n", "h", "e", "i", "t">>}
        THEN [u |-> TempUnitFahrenheit, err |-> NoErr]
        ELSE IF t \in {<<"k">>, <<"k", "e", "l", "v", "i", "n">>}
        THEN [u |-> TempUnitKelvin, err |-> NoErr]
        ELSE [u |-> 0, err |-> [kind |-> "tempUnitInvalid", text |-> s]]

\* the flags RunCLI defines, all of them strings with default ""
FlagNames == {<<"l">>, <<"s">>, <<"t">>}
NoFlags == [f \in FlagNames |-> <<>>]
\* the names package flag answers with its usage message when undefined
HelpNames == {<<"h">>, <<"h", "e", "l", "p">>}

\* position of the first "=" of a flag name after its first character, or 0
EqualsAt(name) ==
    IF \E i \in 2..Len(name) : name[i] = "="
    THEN CHOOSE i \in 2..Len(name) : name[i] = "=" /\ \A j \in 2..(i - 1) : name[j] # "="
    ELSE 0

\* FlagSet.Parse of package flag with ExitOnError: flags are read up to the
\* first argument that is not a flag or to "--"; a malformed, undefined or
\* valueless flag ends the process with status 2, and -h or -help, which
\* RunCLI does not define, with status 0 (help).
RECURSIVE Parse(_, _)
Parse(flags, args) ==
    IF args = <<>> THEN [exit |-> FALSE, help |-> FALSE, flags |-> flags, rest |-> args]
    ELSE LET s == Head(args)
         IN  IF Len(s) < 2 \/ s[1] # "-"
             THEN [exit |-> FALSE, help |-> FALSE, flags |-> flags, rest |-> args]
             ELSE LET numMinuses == IF s[2] = "-" THEN 2 ELSE 1
                      whole      == Drop(s, numMinuses)
                      eq         == EqualsAt(whole)
                      name       == IF eq = 0 THEN whole ELSE SubSeq(whole, 1, eq - 1)
                  IN  IF numMinuses = 2 /\ Len(s) = 2
                      THEN [exit |-> FALSE, help |-> FALSE, flags |-> flags,
                            rest |-> Tail(args)]
                      ELSE IF Len(whole) = 0 \/ whole[1] \in {"-", "="}
                      THEN [exit |-> TRUE, help |-> FALSE, flags |-> flags,
                            rest |-> Tail(args)]
                      ELSE IF name \notin FlagNames
                      THEN [exit |-> TRUE, help |-> name \in HelpNames, flags |-> flags,
                            rest |-> Tail(args)]
                      ELSE IF eq # 0
                      THEN Parse([flags EXCEPT ![name] = Drop(whole, eq)], Tail(args))
                      ELSE IF Len(args) >= 2
                      THEN Parse([flags EXCEPT ![name] = args[2]], Tail(Tail(args)))
                      ELSE [exit |-> TRUE, help |-> FALSE, flags |-> flags,
                            rest |-> Tail(args)]

\* the value of a flag, or of its environment variable when the flag is ""
FlagOrEnv(flag, envValue) == IF flag = <<>> THEN envValue ELSE flag

\* what a run of RunCLI leaves behind: the error returned, the bytes written
\* to output, the client created, the location asked for, the requests sent,
\* whether flag parsing ended the process and whether it did so for -h or
\* -help, and whether the run panicked
CLIResult(err, output, c, location, requests, exit) ==
    [err |-> err, output |-> output, c |-> c, location |-> location,
     requests |-> requests, exit |-> exit, help |-> FALSE, panic |-> FALSE]

\* the process ended inside fs.Parse
CLIExit(p) == [CLIResult(NoErr, <<>>, Nil, Nil, <<>>, TRUE) EXCEPT !.help = p.help]

CLIStop(err) == CLIResult(err, <<>>, Nil, Nil, <<>>, FALSE)

\* the end of RunCLI: the error of Forecast returned as it is, or the
\* forecast written to output with Fprintln; r is what wc.Forecast returned
PrintForecast(wc, location, r) ==
    IF r.panic
    THEN [CLIResult(NoErr, <<>>, Some(wc), Some(location), r.requests, FALSE)
             EXCEPT !.panic = TRUE]
    ELSE IF r.err # NoErr
    THEN CLIResult(r.err, <<>>, Some(wc), Some(location), r.requests, FALSE)
    ELSE CLIResult(NoErr, r.out \o <<"\n">>, Some(wc), Some(location), r.requests, FALSE)

\* a line written by Fprintln, without its newline
Line(output) == SubSeq(output, 1, Len(output) - 1)

\* RunCLI from the creation of the client on: wc, err := NewClient(...),
\* then forecast, err := wc.Forecast(location)
RunClient(apiKey, speedUnit, tempUnit, location, resp) ==
    LET n == NewClient(apiKey,
                       <<[name |-> "WithSpeedUnit", unit |-> speedUnit, text |-> <<>>],
                         [name |-> "WithTempUnit", unit |-> tempUnit, text |-> <<>>]>>)
    IN  IF n.err # NoErr
        THEN CLIStop([kind |-> "newClient", cause |-> n.err])
        ELSE CHOOSE result \in {PrintForecast(wc, l, Forecast(wc, l, resp)) :
                                    wc \in {n.c[1]}, l \in {location}} : TRUE

\* RunCLI without the check for an empty location
RunCLI_NoLocationCheck(env, args, resp) ==
    IF env.OPENWEATHERMAP_API_KEY = <<>> THEN CLIStop([kind |-> "noAPIKey"])
    ELSE LET p == Parse(NoFlags, args)
             cliSpeedUnit == FlagOrEnv(p.flags[<<"s">>], env.WEATHERCASTER_SPEED_UNIT)
             cliTempUnit  == FlagOrEnv(p.flags[<<"t">>], env.WEATHERCASTER_TEMP_UNIT)
             cliLocation  == FlagOrEnv(p.flags[<<"l">>], env.WEATHERCASTER_LOCATION)
             su == ProcessCLISpeedUnit(cliSpeedUnit)
             tu == ProcessCLITempUnit(cliTempUnit)
         IN  IF p.exit THEN CLIExit(p)
             ELSE IF su.err # NoErr THEN CLIStop(su.err)
             ELSE IF tu.err # NoErr THEN CLIStop(tu.err)
             ELSE RunClient(env.OPENWEATHERMAP_API_KEY, su.u, tu.u, cliLocation, resp)

\* RunCLI of weather.go; env holds the environment variables
RunCLI(env, args, resp) ==
    IF env.OPENWEATHERMAP_API_KEY = <<>> THEN CLIStop([kind |-> "noAPIKey"])
    ELSE LET p == Parse(NoFlags, args)
             cliSpeedUnit == FlagOrEnv(p.flags[<<"s">>], env.WEATHERCASTER_SPEED_UNIT)
             cliTempUnit  == FlagOrEnv(p.flags[<<"t">>], env.WEATHERCASTER_TEMP_UNIT)
             cliLocation  == FlagOrEnv(p.flags[<<"l">>], env.WEATHERCASTER_LOCATION)
             su == ProcessCLISpeedUnit(cliSpeedUnit)
             tu == ProcessCLITempUnit(cliTempUnit)
         IN  IF p.exit THEN CLIExit(p)
             ELSE IF cliLocation = <<>> THEN CLIStop([kind |-> "noLocation"])
             ELSE IF su.err # NoErr THEN CLIStop(su.err)
             ELSE IF tu.err # NoErr THEN CLIStop(tu.err)
             ELSE RunClient(env.OPENWEATHERMAP_API_KEY, su.u, tu.u, cliLocation, resp)

\* speedUnitName and tempUnitName of the package printed in README.md
speedUnitName_README ==
    (SpeedUnitMiles :> <<"M", "P", "H">>) @@ (SpeedUnitMeters :> <<"m", "/", "s">>)
tempUnitName_README ==
    (TempUnitFahrenheit :> <<"º", "F">>) @@ (TempUnitCelsius :> <<"º", "C">>)
        @@ (TempUnitKelvin :> <<"º", "K">>)

\* formatForecast of the package printed in README.md: every label follows
\* its number after one space.  Its ConvertTemp and ConvertSpeed compute
\* what those of weather.go compute.
formatForecast_README(c, w) ==
    LET tempUnit  == IF c.tempUnit \in DOMAIN tempUnitName_README
                     THEN tempUnitName_README[c.tempUnit] ELSE <<>>
        speedUnit == IF c.speedUnit \in DOMAIN speedUnitName_README
                     THEN speedUnitName_README[c.speedUnit] ELSE <<>>
        temperature == IF w.temperature # Nil
                       THEN <<",", " ", "t", "e", "m", "p", " ">>
                               \o FmtF1(ConvertTemp(c, w.temperature[1]))
                               \o <<" ">> \o tempUnit
                       ELSE <<>>
        feelsLike   == IF w.feelsLike # Nil
                       THEN <<",", " ", "f", "e", "e", "l", "s", " ", "l", "i", "k", "e", " ">>
                               \o FmtF1(ConvertTemp(c, w.feelsLike[1]))
                               \o <<" ">> \o tempUnit
                       ELSE <<>>
        humidity    == IF w.humidity # Nil
                       THEN <<",", " ", "h", "u", "m", "i", "d", "i", "t", "y", " ">>
                               \o FmtF1(w.humidity[1]) \o <<"%">>
                       ELSE <<>>
        wind        == IF w.windSpeed # Nil
                       THEN <<",", " ", "w", "i", "n", "d", " ">>
                               \o FmtF1(ConvertSpeed(c, w.windSpeed[1]))
                               \o <<" ">> \o speedUnit
                       ELSE <<>>
    IN  IF w.description = Nil
        THEN [out |-> <<>>, err |-> NoErr, panic |-> TRUE]
        ELSE [out |-> Concat(<<w.description[1], temperature, feelsLike, humidity, wind>>),
              err |-> NoErr, panic |-> FALSE]

\* Forecast of the package printed in README.md
Forecast_README(c, location, resp) ==
    LET url == ForecastURL(c, location)
    IN  The({IF q.err # NoErr
             THEN [url |-> url, unmarshalled |-> q.unmarshalled, requests |-> q.requests,
                   formatted |-> FALSE, cond |-> q.cond, out |-> <<>>,
                   err |-> [kind |-> "forecast", location |-> location, cause |-> q.err],
                   panic |-> FALSE]
             ELSE The({[url |-> url, unmarshalled |-> q.unmarshalled, requests |-> q.requests,
                       formatted |-> TRUE, cond |-> q.cond, out |-> f.out, err |-> f.err,
                       panic |-> f.panic] :
                      f \in {formatForecast_README(c, q.cond)}}) :
                 q \in {queryAPI(c, url, resp)}})

\* the RunCLI of README.md from the creation of the client on
RunClient_README(apiKey, speedUnit, tempUnit, location, resp) ==
    LET n == NewClient(apiKey,
                       <<[name |-> "WithSpeedUnit", unit |-> speedUnit, text |-> <<>>],
                         [name |-> "WithTempUnit", unit |-> tempUnit, text |-> <<>>]>>)
    IN  IF n.err # NoErr
        THEN CLIStop([kind |-> "newClient", cause |-> n.err])
        ELSE CHOOSE result \in {PrintForecast(wc, l, Forecast_README(wc, l, resp)) :
                                    wc \in {n.c[1]}, l \in {location}} : TRUE

\* the speed-unit switch of the RunCLI printed in README.md, which knows
\* "mile", "miles", "meter" and "meters" only
SpeedUnitSwitch_README(s) ==
    LET t == ToLower(s)
    IN  IF t = <<>> THEN [u |-> SpeedUnitMiles, err |-> NoErr]
        ELSE IF t \in {<<"m", "i", "l", "e">>, <<"m", "i", "l", "e", "s">>}
        THEN [u |-> SpeedUnitMiles, err |-> NoErr]
        ELSE IF t \in {<<"m", "e", "t", "e", "r">>, <<"m", "e", "t", "e", "r", "s">>}
        THEN [u |-> SpeedUnitMeters, err |-> NoErr]
        ELSE [u |-> 0, err |-> [kind |-> "speedUnitInvalid", text |-> s]]

\* RunCLI as printed in README.md: it parses args[1:], which panics on an
\* empty args, and its temperature switch has the cases of ProcessCLITempUnit
RunCLI_README(env, args, resp) ==
    IF env.OPENWEATHERMAP_API_KEY = <<>> THEN CLIStop([kind |-> "noAPIKey"])
    ELSE IF args = <<>> THEN [CLIStop(NoErr) EXCEPT !.panic = TRUE]
    ELSE LET p == Parse(NoFlags, Tail(args))
             cliSpeedUnit == FlagOrEnv(p.flags[<<"s">>], env.WEATHERCASTER_SPEED_UNIT)
             cliTempUnit  == FlagOrEnv(p.flags[<<"t">>], env.WEATHERCASTER_TEMP_UNIT)
             cliLocation  == FlagOrEnv(p.flags[<<"l">>], env.WEATHERCASTER_LOCATION)
             su == SpeedUnitSwitch_README(cliSpeedUnit)
             tu == ProcessCLITempUnit(cliTempUnit)
         IN  IF p.exit THEN CLIExit(p)
             ELSE IF cliLocation = <<>> THEN CLIStop([kind |-> "noLocation"])
             ELSE IF su.err # NoErr THEN CLIStop(su.err)
             ELSE IF tu.err # NoErr THEN CLIStop(tu.err)
             ELSE RunClient_README(env.OPENWEATHERMAP_API_KEY, su.u, tu.u, cliLocation, resp)

\* main of the command: RunCLI(os.Args, os.Stdout, os.Stderr), then exit
\* status 1 when it returned an error; osArgs[1] is the program name.  A
\* process ended by fs.Parse has status 0 after -h or -help and 2 otherwise,
\* and a panic ends it with status 2.
main(env, osArgs, resp) ==
    LET r == RunCLI(env, osArgs, resp)
    IN  [r |-> r,
         status |-> IF r.exit THEN (IF r.help THEN 0 ELSE 2)
                    ELSE IF r.panic THEN 2
                    ELSE IF r.err # NoErr THEN 1 ELSE 0]

-----------------------------------------------------------------------------
(* The inputs tried *)

Keys == {<<"k", "1">>, <<"k", "2">>}
TestHost == <<"h", "t", "t", "p", "s", ":", "/", "/", "t", "s">>

LocChars == {"a", " ", ",", "&", "=", "#"}
Locations == StringsUpTo(LocChars, MaxLocLen)
\* the location used when the responses are swept
SweepLocations == {<<"a">>}

SpeedUnitArgs == -1..2
TempUnitArgs == -1..3
UnitsArgs ==
    {Standard, Metric, Imperial, <<"S", "t", "a", "n", "d", "a", "r", "d">>,
     <<"M", "e", "t", "r", "i", "c">>, <<"s", "i">>, <<>>}

Opt(name, unit, text) == [name |-> name, unit |-> unit, text |-> text]

EnumOptions ==
    {Opt("WithSpeedUnit", u, <<>>) : u \in SpeedUnitArgs}
        \cup {Opt("WithTempUnit", u, <<>>) : u \in TempUnitArgs}
        \cup {Opt("WithAPIHost", 0, TestHost)}
UnitsOptions ==
    {Opt("WithUnits", 0, u) : u \in UnitsArgs} \cup {Opt("WithAPIHost", 0, TestHost)}

\* the command line: program name, arguments after it, environments
ProgramName == <<"w", "e", "a", "t", "h", "e", "r">>
UserArgs ==
    {<<>>,
     <<<<"-", "l">>, <<"a">>>>,
     <<<<"-", "l", "=", "a">>>>,
     <<<<"-", "-", "l">>, <<"a">>>>,
     <<<<"-", "l">>, <<"a">>, <<"-", "s">>, <<"m", "e", "t", "e", "r", "s">>, <<"-", "t">>, <<"c">>>>,
     <<<<"-", "l">>, <<"a">>, <<"-", "t">>, <<"K">>, <<"-", "s">>, <<"M", "I">>>>,
     <<<<"-", "s">>, <<"f", "e", "e", "t">>, <<"-", "l">>, <<"a">>>>,
     <<<<"-", "t">>, <<"x">>, <<"-", "l">>, <<"a">>>>,
     <<<<"-", "l">>>>,
     <<<<"-", "x">>>>,
     <<<<"-", "h">>>>,
     <<<<"-", "-">>, <<"-", "l">>, <<"a">>>>,
     <<<<"a">>>>}
Environments ==
    [OPENWEATHERMAP_API_KEY : {<<>>, <<"k", "1">>},
     WEATHERCASTER_LOCATION : {<<>>, <<",">>},
     WEATHERCASTER_SPEED_UNIT : {<<>>, <<"m">>, <<"f", "e", "e", "t">>},
     WEATHERCASTER_TEMP_UNIT : {<<>>, <<"k">>, <<"x">>}]

\* the unit strings tried: every recognised name, some in other cases, and
\* strings that are no unit
UnitStrings ==
    {<<>>,
     <<"m", "i">>,
     <<"m", "i", "l", "e">>,
     <<"m", "i", "l", "e", "s">>,
     <<"m">>,
     <<"m", "e", "t", "e", "r">>,
     <<"m", "e", "t", "e", "r", "s">>,
     <<"M", "I">>,
     <<"M", "i", "l", "e", "s">>,
     <<"m", "E", "t", "E", "r", "S">>,
     <<"M">>,
     <<"c">>,
     <<"c", "e", "l", "s", "i", "u", "s">>,
     <<"C">>,
     <<"C", "e", "l", "s", "i", "u", "s">>,
     <<"f">>,
     <<"f", "a", "h", "r", "e", "n", "h", "e", "i", "t">>,
     <<"F">>,
     <<"F", "A", "H", "R", "E", "N", "H", "E", "I", "T">>,
     <<"k">>,
     <<"k", "e", "l", "v", "i", "n">>,
     <<"K">>,
     <<"K", "e", "l", "v", "i", "n">>,
     <<"x">>,
     <<"f", "e", "e", "t">>,
     <<"m", "i", "l">>,
     <<"m", "e", "t", "r", "e">>,
     <<" ", "c">>,
     <<"k", "e", "l">>,
     <<"m", "c">>}

\* sequences over S of length at most n
RECURSIVE SeqsUpTo(_, _)
SeqsUpTo(S, n) ==
    IF n = 0 THEN {<<>>}
    ELSE LET shorter == SeqsUpTo(S, n - 1)
         IN  shorter \cup {Append(q, x) : q \in shorter, x \in S}

ClearSky == <<"c", "l", "e", "a", "r", " ", "s", "k", "y">>
Rain == <<"r", "a", "i", "n">>

OptOf(S) == {Nil} \cup {Some(v) : v \in S}

\* sample readings, in hundredths: zero (under Celsius a rounding tie) and a usual value
TempSamples == {0, 28612}
FeelsSamples == {0, 28571}
HumiditySamples == {0, 9200}
SpeedSamples == {0, 412}

Mains ==
    [temp : OptOf(TempSamples), feels_like : OptOf(FeelsSamples),
     humidity : OptOf(HumiditySamples)]
Winds == [speed : OptOf(SpeedSamples)]

NoMain == [temp |-> Nil, feels_like |-> Nil, humidity |-> Nil]
FullMain == [temp |-> Some(28612), feels_like |-> Some(28571), humidity |-> Some(9200)]

\* entries whose weather array is a single described element
FullEntries ==
    {[weather |-> Some(<<[description |-> Some(ClearSky)]>>), main |-> m, wind |-> w] :
        m \in Mains, w \in Winds}
\* entries without weather key, with an empty weather array, an element
\* without description, two elements
OddEntries ==
    {[weather |-> ws, main |-> m, wind |-> w] :
        ws \in {Nil, Some(<<>>), Some(<<[description |-> Nil]>>),
                Some(<<[description |-> Some(Rain)], [description |-> Some(ClearSky)]>>)},
        m \in {NoMain, FullMain},
        w \in {[speed |-> Nil], [speed |-> Some(412)]}}
\* entries that follow the first one in a longer list
TailEntries ==
    {[weather |-> Some(<<[description |-> Some(Rain)]>>), main |-> FullMain,
      wind |-> [speed |-> Some(0)]],
     [weather |-> Some(<<>>), main |-> NoMain, wind |-> [speed |-> Nil]]}
HeadEntries ==
    {[weather |-> Some(<<[description |-> Some(ClearSky)]>>), main |-> FullMain,
      wind |-> [speed |-> Some(412)]],
     [weather |-> Some(<<>>), main |-> FullMain, wind |-> [speed |-> Some(412)]]}

Lists ==
    {<<>>} \cup {<<e>> : e \in FullEntries \cup OddEntries}
        \cup {<<h>> \o t : h \in HeadEntries,
                           t \in SeqsUpTo(TailEntries, MaxListLen - 1) \ {<<>>}}

NotJSON == [valid |-> FALSE, list |-> Nil]
FullDoc ==
    [valid |-> TRUE,
     list |-> Some(<<[weather |-> Some(<<[description |-> Some(ClearSky)]>>), main |-> FullMain,
                      wind |-> [speed |-> Some(412)]]>>)]
\* the worked example of the formatter: clear sky, 301.15 K, feels like 300.0 K,
\* humidity 38.0, wind 4.12 m/s
ExampleDoc ==
    [valid |-> TRUE,
     list |-> Some(<<[weather |-> Some(<<[description |-> Some(ClearSky)]>>),
                      main |-> [temp |-> Some(30115), feels_like |-> Some(30000),
                                humidity |-> Some(3800)],
                      wind |-> [speed |-> Some(412)]]>>)]
Bodies == {NotJSON, ExampleDoc, [valid |-> TRUE, list |-> Nil]} \cup {[valid |-> TRUE, list |-> Some(l)] : l \in Lists}

StatusOK == 200
OtherStatuses == {201, 304, 404, 500}

Answer(fail, status, body) == [fail |-> fail, status |-> status, body |-> body]

Responses ==
    {Answer("get", 0, NotJSON), Answer("read", StatusOK, NotJSON)}
        \cup {Answer("none", StatusOK, b) : b \in Bodies}
        \cup {Answer("none", st, b) : st \in OtherStatuses, b \in {NotJSON, FullDoc}}

\* the responses tried with every location
FewResponses ==
    {Answer("get", 0, NotJSON), Answer("none", 404, NotJSON), Answer("none", StatusOK, FullDoc)}

ForecastInputs ==
    (Locations \X FewResponses) \cup (SweepLocations \X Responses)

-----------------------------------------------------------------------------
(* The state machine.  client is the caller's client variable and last    *)
(* the call that ran last, with its arguments and results; calls are      *)
(* made one after the other, each once the caller is done with the        *)
(* result of the one before.                                               *)

NoClient == [variant |-> "none"]
Idle == [op |-> "idle"]

Init ==
    /\ client = NoClient
    /\ last = Idle

\* wc, err := NewClient(key, options...) of the unit-enum client
DoNewClient ==
    /\ last = Idle
    /\ \E key \in Keys, options \in SeqsUpTo(EnumOptions, MaxOpts) :
        LET r == NewClient(key, options)
        IN  /\ client' = IF r.c = Nil THEN NoClient ELSE r.c[1]
            /\ last' = [op |-> "NewClient", key |-> key, options |-> options,
                        c |-> r.c, err |-> r.err]

\* err := wc.SetSpeedUnit(u)
DoSetSpeedUnit ==
    /\ last = Idle
    /\ client.variant = "enum"
    /\ \E u \in SpeedUnitArgs :
        LET r == SetSpeedUnit(client, u)
        IN  /\ client' = r.c
            /\ last' = [op |-> "SetSpeedUnit", unit |-> u, err |-> r.err]

\* err := wc.SetTempUnit(u)
DoSetTempUnit ==
    /\ last = Idle
    /\ client.variant = "enum"
    /\ \E u \in TempUnitArgs :
        LET r == SetTempUnit(client, u)
        IN  /\ client' = r.c
            /\ last' = [op |-> "SetTempUnit", unit |-> u, err |-> r.err]

\* forecast, err := wc.Forecast(location) of the unit-enum client
DoForecast ==
    /\ last = Idle
    /\ client.variant = "enum"
    /\ \E in \in ForecastInputs :
        LET r == Forecast(client, in[1], in[2])
        IN  /\ last' = [op |-> "Forecast", location |-> in[1], resp |-> in[2], r |-> r]
            /\ UNCHANGED client

\* wc := NewClient(key, options...) of the Units-string client, which has no
\* error result: err is always NoErr
DoNewClient_U ==
    /\ last = Idle
    /\ \E key \in Keys, options \in SeqsUpTo(UnitsOptions, MaxOpts) :
        /\ client' = NewClient_U(key, options)
        /\ last' = [op |-> "NewClient_U", key |-> key, options |-> options,
                     c |-> Some(NewClient_U(key, options)), err |-> NoErr]

\* u, err := wc.formAPIUrl(city)
DoFormAPIUrl ==
    /\ last = Idle
    /\ client.variant = "units"
    /\ \E city \in Locations :
        /\ last' = [op |-> "formAPIUrl", location |-> city, url |-> formAPIUrl(client, city)]
        /\ UNCHANGED client

\* forecast, err := wc.Forecast(city) of the Units-string client
DoForecast_U ==
    /\ last = Idle
    /\ client.variant = "units"
    /\ \E in \in ForecastInputs :
        LET r == Forecast_U(client, in[1], in[2])
        IN  /\ last' = [op |-> "Forecast_U", location |-> in[1], resp |-> in[2], r |-> r]
            /\ UNCHANGED client

\* wc := NewClient(key) of the weatherCaster client
DoNewClient_WC ==
    /\ last = Idle
    /\ \E key \in Keys :
        /\ client' = NewClient_WC(key)
        /\ last' = [op |-> "NewClient_WC", key |-> key]

\* u := wc.FormUrl(city)
DoFormUrl ==
    /\ last = Idle
    /\ client.variant = "caster"
    /\ \E city \in Locations :
        /\ last' = [op |-> "FormUrl", location |-> city, url |-> FormUrl(client, city)]
        /\ UNCHANGED client

\* json, err := wc.HttpGet(wc.FormUrl(city))
DoHttpGet ==
    /\ last = Idle
    /\ client.variant = "caster"
    /\ \E in \in ForecastInputs :
        LET url == FormUrl(client, in[1])
        IN  /\ last' = [op |-> "HttpGet", location |-> in[1], resp |-> in[2], url |-> url,
                        r |-> HttpGet(client, url, in[2])]
            /\ UNCHANGED client

\* forecast, err := wc.ForecastByCity(city)
DoForecastByCity ==
    /\ last = Idle
    /\ client.variant = "caster"
    /\ \E in \in ForecastInputs :
        LET r == ForecastByCity(client, in[1], in[2])
        IN  /\ last' = [op |-> "ForecastByCity", location |-> in[1], resp |-> in[2],
                        r |-> r]
            /\ client' = [client EXCEPT !.response = r.response]

\* err := wc.ParseJson(j)
DoParseJson ==
    /\ last = Idle
    /\ client.variant = "caster"
    /\ \E j \in Bodies :
        LET r == ParseJson(client, j)
        IN  /\ client' = [client EXCEPT !.response = r.response]
            /\ last' = [op |-> "ParseJson", j |-> j, err |-> r.err]

\* description := wc.GetDescription()
DoGetDescription ==
    /\ last = Idle
    /\ client.variant = "caster"
    /\ last' = [op |-> "GetDescription", r |-> GetDescription(client)]
    /\ UNCHANGED client

\* forecast := wc.GetForecast()
DoGetForecast ==
    /\ last = Idle
    /\ client.variant = "caster"
    /\ last' = [op |-> "GetForecast", r |-> GetForecast(client)]
    /\ UNCHANGED client

\* u, err := ProcessCLISpeedUnit(s)
DoProcessCLISpeedUnit ==
    /\ last = Idle
    /\ client = NoClient
    /\ \E s \in UnitStrings :
        /\ last' = [op |-> "ProcessCLISpeedUnit", s |-> s, r |-> ProcessCLISpeedUnit(s)]
        /\ UNCHANGED client

\* u, err := ProcessCLITempUnit(s)
DoProcessCLITempUnit ==
    /\ last = Idle
    /\ client = NoClient
    /\ \E s \in UnitStrings :
        /\ last' = [op |-> "ProcessCLITempUnit", s |-> s, r |-> ProcessCLITempUnit(s)]
        /\ UNCHANGED client

\* err := RunCLI(args, output, errOutput) called directly, as a test does,
\* in a process that holds no client of its own
DoRunCLI ==
    /\ last = Idle
    /\ client = NoClient
    /\ \E env \in Environments, args \in UserArgs, resp \in FewResponses :
        /\ last' = [op |-> "RunCLI", env |-> env, args |-> args, resp |-> resp,
                     r |-> RunCLI(env, args, resp)]
        /\ UNCHANGED client

\* the RunCLI of README.md called with the whole argument vector
DoRunCLI_README ==
    /\ last = Idle
    /\ client = NoClient
    /\ \E env \in Environments, args \in UserArgs, resp \in FewResponses :
        /\ last' = [op |-> "RunCLI_README", env |-> env, args |-> <<ProgramName>> \o args,
                     resp |-> resp,
                     r |-> RunCLI_README(env, <<ProgramName>> \o args, resp)]
        /\ UNCHANGED client

\* the command run as "weather <args>": os.Args is the program name
\* followed by the arguments
DoMain ==
    /\ last = Idle
    /\ client = NoClient
    /\ \E env \in Environments, args \in UserArgs, resp \in FewResponses :
        LET m == main(env, <<ProgramName>> \o args, resp)
        IN  /\ last' = [op |-> "main", env |-> env, args |-> <<ProgramName>> \o args,
                         resp |-> resp, r |-> m.r, status |-> m.status]
            /\ UNCHANGED client

\* the caller has used the result of the last call
Return ==
    /\ last # Idle
    /\ last' = Idle
    /\ UNCHANGED client

Next ==
    \/ DoNewClient
    \/ DoSetSpeedUnit
    \/ DoSetTempUnit
    \/ DoForecast
    \/ DoNewClient_U
    \/ DoFormAPIUrl
    \/ DoForecast_U
    \/ DoNewClient_WC
    \/ DoFormUrl
    \/ DoHttpGet
    \/ DoForecastByCity
    \/ DoParseJson
    \/ DoGetDescription
    \/ DoGetForecast
    \/ DoProcessCLISpeedUnit
    \/ DoProcessCLITempUnit
    \/ DoRunCLI
    \/ DoRunCLI_README
    \/ DoMain
    \/ Return

Spec == Init /\ [][Next]_vars

-----------------------------------------------------------------------------
(* Two forecast calls running at once on one client, each in its own       *)
(* goroutine.  last is [op |-> "concurrent", start, mem, calls]: start is   *)
(* the client as it was when the calls began, mem the memory of             *)
(* c.response and calls the two calls, each with its arguments, its         *)
(* position pc, its local variables and its results.  A step is what one    *)
(* goroutine does up to and with one access of the client.  The             *)
(* weatherCaster client keeps its response in the client, and nothing       *)
(* orders the accesses of the two calls: json.Unmarshal and GetForecast     *)
(* load and store it one word at a time, the words of a slice header or     *)
(* of a string in any order.  json.Unmarshal is the decoder of Go 1.21      *)
(* and later, which grows a slice with reflect.Value.Grow.  A call that     *)
(* panics ends, and the other goes on; a fatal error of the runtime ends   *)
(* the process and with it both calls.  Memory that is no array of the     *)
(* response holds what lies there: a load of it gives any word.            *)

\* the locations of the first and of the second call
ConcurrentLocations == <<<<"a">>, <<",">>>>
RainDoc ==
    [valid |-> TRUE,
     list |-> Some(<<[weather |-> Some(<<[description |-> Some(Rain)]>>), main |-> NoMain,
                      wind |-> [speed |-> Nil]]>>)]
ConcurrentResponses ==
    {Answer("get", 0, NotJSON), Answer("none", 404, NotJSON),
     Answer("none", StatusOK, NotJSON), Answer("none", StatusOK, FullDoc),
     Answer("none", StatusOK, RainDoc),
     Answer("none", StatusOK, [valid |-> TRUE, list |-> Nil]),
     Answer("none", StatusOK, [valid |-> TRUE, list |-> Some(<<>>)])}

\* Memory.  An array has a number; a slice header is the three words ptr
\* (the number of its array), len and cap, and a string the two words ptr
\* (its text) and len.  b = <<kind, array, index>> is the place of the List
\* header ("List"), of the Weather header of a list element ("ent") or of
\* the Description of a weather element ("wth"), and <<kind, array, index,
\* word>> one word of it.  m.w holds the words that are not zero and m.size
\* the number of elements of each array.
NilPtr == 0
\* the address reflect.MakeSlice gives every array of no elements
ZeroBase == 0 - 1
\* an address that is no array of the response
Wild == 0 - 2
\* the text at such an address
WildText == <<"wild">>
\* the lengths and capacities a word that is no part of the response may hold
UnknownInts == 0..2

ListAt == <<"List", 0, 0>>
SliceWords == {"ptr", "len", "cap"}
StringWords == {"ptr", "len"}

\* the kind, the words and the size in bytes of the elements of the slice
\* whose header is of kind k
ElemKind(k) == IF k = "List" THEN "ent" ELSE "wth"
ElemWords(k) == IF k = "List" THEN SliceWords ELSE StringWords
ElemSize(k) == IF k = "List" THEN 24 ELSE 16

Cell(b, f) == <<b[1], b[2], b[3], f>>
ZeroWord(cell) == IF cell[1] = "wth" /\ cell[4] = "ptr" THEN <<>> ELSE 0

Load(m, cell) == IF cell \in DOMAIN m.w THEN m.w[cell] ELSE ZeroWord(cell)

\* a store into an array of the response or into the List header
Store(m, cell, v) ==
    [m EXCEPT !.w = IF v = ZeroWord(cell) /\ cell[1] # "List"
                    THEN [c \in DOMAIN m.w \ {cell} |-> m.w[c]]
                    ELSE (cell :> v) @@ m.w]

RECURSIVE StoreAll(_, _)
StoreAll(m, pairs) ==
    IF pairs = <<>> THEN m
    ELSE StoreAll(Store(m, pairs[1][1], pairs[1][2]), Tail(pairs))

\* where b lies: at the nil address, at an address that is no array of the
\* response, in its array, or beyond it
Where(m, b) ==
    IF b[1] = "List" THEN "in"
    ELSE IF b[2] = NilPtr THEN "nil"
    ELSE IF b[2] = Wild THEN "wild"
    ELSE IF b[3] >= m.size[b[2]] THEN "beyond"
    ELSE "in"

\* the words that may lie where no array of the response is
AnyWord(f, kind) ==
    IF f # "ptr" THEN UnknownInts
    ELSE IF kind = "wth" THEN {<<>>, WildText}
    ELSE {NilPtr, Wild}

\* what a load of word f at b may give: the word of the array; beyond an
\* array what a call has stored there and else what lies there; at any
\* other address what lies there
Loads(m, b, f) ==
    CASE Where(m, b) = "in" -> {Load(m, Cell(b, f))}
      [] Where(m, b) = "beyond" ->
            IF Cell(b, f) \in DOMAIN m.w THEN {m.w[Cell(b, f)]} ELSE AnyWord(f, b[1])
      [] Where(m, b) = "wild" -> AnyWord(f, b[1])
      [] OTHER -> {}

\* the memory after v is stored into word f at b; a store at an address that
\* is no array of the response changes nothing of the response
StoreAt(m, b, f, v) ==
    CASE Where(m, b) = "in" -> Store(m, Cell(b, f), v)
      [] Where(m, b) = "beyond" -> [m EXCEPT !.w = (Cell(b, f) :> v) @@ m.w]
      [] OTHER -> m

\* the memory of a response the client holds: the List array is number 1
\* and the Weather array of its element e (from 0) number 2 + e
WeatherWordsOf(e, slot) ==
    LET items == slot.Weather \o slot.spare
    IN  IF items = <<>> THEN <<>>
        ELSE <<<<Cell(<<"ent", 1, e>>, "ptr"), 2 + e>>,
               <<Cell(<<"ent", 1, e>>, "len"), Len(slot.Weather)>>,
               <<Cell(<<"ent", 1, e>>, "cap"), Len(items)>>>>
             \o Concat([k \in 1..Len(items) |->
                          <<<<Cell(<<"wth", 2 + e, k - 1>>, "ptr"), items[k].Description>>,
                            <<Cell(<<"wth", 2 + e, k - 1>>, "len"),
                              Len(items[k].Description)>>>>])

RECURSIVE SizesOf(_, _)
SizesOf(slots, e) ==
    IF e > Len(slots) THEN (NilPtr :> 0) @@ (ZeroBase :> 0) @@ (1 :> Len(slots))
    ELSE ((1 + e) :> Len(slots[e].Weather \o slots[e].spare)) @@ SizesOf(slots, e + 1)

ToMemory(response) ==
    LET slots == response.List \o response.spare
    IN  StoreAll([w |-> (Cell(ListAt, "ptr") :> (IF slots = <<>> THEN NilPtr ELSE 1))
                          @@ (Cell(ListAt, "len") :> Len(response.List))
                          @@ (Cell(ListAt, "cap") :> Len(slots)),
                  size |-> SizesOf(slots, 1)],
                 Concat([e \in 1..Len(slots) |-> WeatherWordsOf(e - 1, slots[e])]))

\* the Weather slice whose header is at b, as a value
WeatherView(m, b) ==
    LET p     == Load(m, Cell(b, "ptr"))
        items == [k \in 1..Load(m, Cell(b, "cap")) |->
                     [Description |-> Load(m, Cell(<<"wth", p, k - 1>>, "ptr"))]]
    IN  [Weather |-> SubSeq(items, 1, Load(m, Cell(b, "len"))),
         spare |-> SubSeq(items, Load(m, Cell(b, "len")) + 1, Len(items))]

\* the response in memory, as a value
ResponseView(m) ==
    LET p     == Load(m, Cell(ListAt, "ptr"))
        slots == [e \in 1..Load(m, Cell(ListAt, "cap")) |->
                     WeatherView(m, <<"ent", p, e - 1>>)]
    IN  [List |-> SubSeq(slots, 1, Load(m, Cell(ListAt, "len"))),
         spare |-> SubSeq(slots, Load(m, Cell(ListAt, "len")) + 1, Len(slots))]

\* the slice header at b is one that ToMemory gives back: nil and empty, or
\* an array of the response with its own capacity and a length within it.
\* The empty slice of reflect.MakeSlice is none: as a value it is the nil
\* slice, but its address is another.
SoundSlice(m, b) ==
    LET p == Load(m, Cell(b, "ptr"))
        l == Load(m, Cell(b, "len"))
        c == Load(m, Cell(b, "cap"))
    IN  /\ p \notin {Wild, ZeroBase}
        /\ c = m.size[p]
        /\ l <= c

\* the response in memory is a value of which ToMemory makes this memory
\* again: every header and every string holds the words of one store
Expressible(m) ==
    /\ SoundSlice(m, ListAt)
    /\ \A e \in 0..(Load(m, Cell(ListAt, "cap")) - 1) :
          LET b == <<"ent", Load(m, Cell(ListAt, "ptr")), e>>
          IN  /\ SoundSlice(m, b)
              /\ \A k \in 0..(Load(m, Cell(b, "cap")) - 1) :
                    LET s == <<"wth", Load(m, Cell(b, "ptr")), k>>
                    IN  /\ Load(m, Cell(s, "ptr")) # WildText
                        /\ Load(m, Cell(s, "len")) = Len(Load(m, Cell(s, "ptr")))

\* runtime.growslice: the capacity of the array that takes newLen elements
\* of kind k in place of one of oldCap, rounded up to a size class
SizeClasses ==
    <<8, 16, 24, 32, 48, 64, 80, 96, 112, 128, 144, 160, 176, 192, 208, 224, 240, 256,
      288, 320, 352, 384, 416, 448, 480, 512>>
GrownCap(k, oldCap, newLen) ==
    LET want  == IF newLen > 2 * oldCap THEN newLen ELSE 2 * oldCap
        class == CHOOSE i \in 1..Len(SizeClasses) :
                     /\ SizeClasses[i] >= want * ElemSize(k)
                     /\ \A h \in 1..(i - 1) : SizeClasses[h] < want * ElemSize(k)
    IN  SizeClasses[class] \div ElemSize(k)

\* The local variables of json.Unmarshal and of GetForecast in one call: at
\* is the position, lvl the slice being decoded (1 List, 2 Weather), hdr
\* and i the place of its header and the index of the element at each
\* level, str the place of the string being stored, pend the words of the
\* current load or store still to do, copy the words growslice has still to
\* copy, r the words loaded, text the text loaded, new the array being
\* made and allocs the number of arrays the call has made.
NoRegs == [ptr |-> 0, len |-> 0, cap |-> 0]
NoDecode ==
    [at |-> "none", lvl |-> 1, hdr |-> <<ListAt, ListAt>>, i |-> <<0, 0>>, str |-> ListAt,
     pend |-> {}, copy |-> {}, r |-> NoRegs, text |-> <<>>, new |-> 0, allocs |-> 0]

\* a call that has not started
NewCall(location, resp) ==
    [location |-> location, resp |-> resp, pc |-> "start", body |-> Nil,
     cond |-> NoConditions, out |-> <<>>, err |-> NoErr, panic |-> FALSE, d |-> NoDecode]

\* the call returns
Finish(call, out, err, panic) ==
    [call EXCEPT !.pc = "done", !.out = out, !.err = err, !.panic = panic, !.d = NoDecode]

\* the responses a weatherCaster client holds when two calls are started on
\* it: none, and the one of a call answered with FullDoc
ConcurrentStarts ==
    {[List |-> <<>>, spare |-> <<>>],
     [List |-> <<[Weather |-> <<[Description |-> ClearSky]>>, spare |-> <<>>]>>,
      spare |-> <<>>]}

\* the API key of the clients on which two calls are started
ConcurrentKey == <<"k", "1">>

\* go wc.Forecast(l1); go wc.Forecast(l2)  (ForecastByCity for the weatherCaster client)
GoForecasts ==
    /\ last = Idle
    /\ client.variant \in {"enum", "caster"}
    /\ (IF client.variant = "caster" THEN client.ApiKey ELSE client.APIKey) = ConcurrentKey
    /\ client.variant = "caster" => client.response \in ConcurrentStarts
    /\ \E r1 \in ConcurrentResponses, r2 \in ConcurrentResponses :
        last' = [op |-> "concurrent", start |-> client,
                 mem |-> ToMemory(IF client.variant = "caster" THEN client.response
                                  ELSE [List |-> <<>>, spare |-> <<>>]),
                 calls |-> <<NewCall(ConcurrentLocations[1], r1),
                            NewCall(ConcurrentLocations[2], r2)>>]
    /\ UNCHANGED client

\* call i runs queryAPI: it forms its URL from the client's fields and has
\* its exchange with the upstream; on an error it returns
StepQuery ==
    /\ last.op = "concurrent"
    /\ \E i \in 1..2 :
        LET call == last.calls[i] IN
        /\ call.pc = "start"
        /\ IF client.variant = "caster"
           THEN LET q == queryAPI_WC(client, formAPIUrl_WC(client, call.location), call.resp)
                IN  last' = [last EXCEPT !.calls[i] =
                        IF q.err # NoErr
                        THEN Finish(call, <<>>,
                                    [kind |-> "forecast", location |-> call.location,
                                     cause |-> q.err], FALSE)
                        ELSE [call EXCEPT !.pc = "fetched", !.body = q.body]]
           ELSE LET q == queryAPI(client, ForecastURL(client, call.location), call.resp)
                IN  last' = [last EXCEPT !.calls[i] =
                        IF q.err # NoErr
                        THEN Finish(call, <<>>,
                                    [kind |-> "forecast", location |-> call.location,
                                     cause |-> q.err], FALSE)
                        ELSE [call EXCEPT !.pc = "queried", !.cond = q.cond]]
    /\ UNCHANGED client

\* call i of the unit-enum client runs formatForecast on its own conditions,
\* reading the client's units
StepFormat ==
    /\ last.op = "concurrent"
    /\ \E i \in 1..2 :
        LET call == last.calls[i]
            f    == formatForecast(client, call.cond)
        IN  /\ call.pc = "queried"
            /\ last' = [last EXCEPT !.calls[i] = Finish(call, f.out, f.err, f.panic)]
    /\ UNCHANGED client

\* GetForecast begins: c.response.List[0] loads len and ptr of List
StartRead == [NoDecode EXCEPT !.at = "gList", !.pend = {"len", "ptr"}]

\* json.Unmarshal begins on the document j: without a "list" key nothing of
\* the response is touched, an empty array goes to the end of the array
\* loop, and else the loop starts at element 0
StartDecode(j) ==
    IF j.list = Nil THEN StartRead
    ELSE [NoDecode EXCEPT !.at = IF j.list[1] = <<>> THEN "end" ELSE "cap"]

\* call i of the weatherCaster client enters parseJson: json.Unmarshal checks
\* the bytes first and returns an error, writing nothing, when they are not JSON
StepParseBegin ==
    /\ last.op = "concurrent"
    /\ \E i \in 1..2 :
        LET call == last.calls[i] IN
        /\ call.pc = "fetched"
        /\ last' = [last EXCEPT !.calls[i] =
                IF ~call.body[1].valid
                THEN Finish(call, <<>>,
                            [kind |-> "parse", location |-> call.location,
                             cause |-> ErrDecode], FALSE)
                ELSE IF call.body[1].list = Nil
                THEN [call EXCEPT !.pc = "parsed", !.d = StartRead]
                ELSE [call EXCEPT !.pc = "parsing", !.d = StartDecode(call.body[1])]]
    /\ UNCHANGED client

\* the header being decoded into, the index of the element, and the JSON
\* items of the array at the level the decoder is in
Hdr(d) == d.hdr[d.lvl]
Idx(d) == d.i[d.lvl]
ItemsAt(d, j) ==
    IF d.lvl = 1 THEN j.list[1] ELSE j.list[1][d.i[1] + 1].weather[1]

\* what a step leaves: the local variables, the memory, and whether the
\* call goes on ("no"), has finished the function ("done"), panicked, or
\* the process died of a fatal error ("die")
Go(d, m) == [d |-> d, mem |-> m, end |-> "no"]
Done(m) == [d |-> NoDecode, mem |-> m, end |-> "done"]
Fault(m) == [d |-> NoDecode, mem |-> m, end |-> "panic"]
Die(m) == [d |-> NoDecode, mem |-> m, end |-> "die"]

\* an access at b, which gives what then gives: at the nil address it is a
\* run-time panic instead, and at an address that is no array of the
\* response it may find no memory, a fatal error
Access(m, b, then) ==
    CASE Where(m, b) = "nil" -> {Fault(m)}
      [] Where(m, b) = "wild" -> {Die(m)} \cup then
      [] OTHER -> then

\* d.array: i++ and the next element, or the end of the loop
Advance(d, j) ==
    [d EXCEPT !.i[d.lvl] = @ + 1,
              !.at = IF d.i[d.lvl] + 1 < Len(ItemsAt(d, j)) THEN "cap" ELSE "end"]

\* d.array of the Weather slice returns into the loop over List, and the
\* one of List ends json.Unmarshal
Pop(d, j, m) ==
    IF d.lvl = 1 THEN Done(m)
    ELSE Go(Advance([d EXCEPT !.lvl = 1, !.hdr[2] = ListAt, !.i[2] = 0], j), m)

\* the end of d.array: if i == 0 { v.Set(reflect.MakeSlice(v.Type(), 0, 0)) }
EndZero(d, j, m) ==
    IF Idx(d) = 0 THEN Go([d EXCEPT !.at = "zeroStore", !.pend = SliceWords], m)
    ELSE Pop(d, j, m)

\* d.value(v.Index(i)) on the element at <<p, i>>.  indirect takes the
\* address of the element and panics (Set of a value that is not
\* addressable) when that address is nil.  Else an object of List decodes
\* its "weather" array into the Weather field and an object of Weather
\* stores its "description"; a key that is missing touches nothing.
Enter(d, j, p, m) ==
    IF p = NilPtr /\ Idx(d) = 0 THEN Fault(m)
    ELSE IF d.lvl = 1
    THEN LET e == j.list[1][d.i[1] + 1]
         IN  IF e.weather = Nil THEN Go(Advance(d, j), m)
             ELSE Go([d EXCEPT !.lvl = 2, !.hdr[2] = <<"ent", p, d.i[1]>>, !.i[2] = 0,
                               !.at = IF e.weather[1] = <<>> THEN "end" ELSE "cap"], m)
    ELSE LET w == ItemsAt(d, j)[d.i[2] + 1]
         IN  IF w.description = Nil THEN Go(Advance(d, j), m)
             ELSE Go([d EXCEPT !.at = "strStore", !.str = <<"wth", p, d.i[2]>>,
                               !.pend = StringWords, !.text = w.description[1]], m)

\* reflect.Value.Grow has loaded the header again for runtime.growslice,
\* which makes a zeroed array for len + 1 elements (of twice the old
\* capacity when that is more) and copies the cap elements of the old one,
\* whatever the header now holds
Grown(d, m, self) ==
    LET id   == 10 * self + d.allocs + 1
        todo == {<<e, f>> : e \in 0..(d.r.cap - 1), f \in ElemWords(Hdr(d)[1])}
    IN  Go([d EXCEPT !.new = id, !.allocs = @ + 1, !.copy = todo,
                     !.at = IF todo = {} THEN "growStore" ELSE "growCopy",
                     !.pend = IF todo = {} THEN SliceWords ELSE {}],
           [m EXCEPT !.size = (id :> GrownCap(Hdr(d)[1], d.r.cap, d.r.len + 1)) @@ @])

\* the header Grow stores: the new array, the old length, the new capacity
GrownHeader(d, m) == [ptr |-> d.new, len |-> d.r.len, cap |-> m.size[d.new]]

\* one step of json.Unmarshal in call self, decoding the document j
UnmarshalStep(d, j, m, self) ==
    CASE d.at = "cap" ->
            \* if i >= v.Cap() { v.Grow(1) }
            Access(m, Hdr(d),
                   {Go([d EXCEPT !.at = IF Idx(d) >= v THEN "growLen" ELSE "len"], m) :
                       v \in Loads(m, Hdr(d), "cap")})
      [] d.at = "growLen" ->
            \* Grow: p.Len+n > p.Cap, first p.Len
            Access(m, Hdr(d),
                   {Go([d EXCEPT !.at = "growCap", !.r.len = v], m) :
                       v \in Loads(m, Hdr(d), "len")})
      [] d.at = "growCap" ->
            \* Grow: p.Len+n > p.Cap, then p.Cap
            Access(m, Hdr(d),
                   {Go(IF d.r.len + 1 > v
                       THEN [d EXCEPT !.at = "growRead", !.pend = SliceWords, !.r = NoRegs]
                       ELSE [d EXCEPT !.at = "len", !.r = NoRegs], m) :
                       v \in Loads(m, Hdr(d), "cap")})
      [] d.at = "growRead" ->
            \* Grow: growslice(t, *p, n) loads the header
            Access(m, Hdr(d),
                   UNION {{IF d.pend = {f}
                           THEN Grown([d EXCEPT !.r[f] = v, !.pend = {}], m, self)
                           ELSE Go([d EXCEPT !.r[f] = v, !.pend = @ \ {f}], m) :
                              v \in Loads(m, Hdr(d), f)} : f \in d.pend})
      [] d.at = "growCopy" ->
            \* growslice: memmove of the old elements, word by word
            UNION {Access(m, <<ElemKind(Hdr(d)[1]), d.r.ptr, c[1]>>,
                          {Go([d EXCEPT !.copy = @ \ {c},
                                        !.at = IF d.copy = {c} THEN "growStore" ELSE @,
                                        !.pend = IF d.copy = {c} THEN SliceWords ELSE @],
                              Store(m, Cell(<<ElemKind(Hdr(d)[1]), d.new, c[1]>>, c[2]), v)) :
                              v \in Loads(m, <<ElemKind(Hdr(d)[1]), d.r.ptr, c[1]>>, c[2])}) :
                      c \in d.copy}
      [] d.at = "growStore" ->
            \* Grow: *p = growslice(...)
            Access(m, Hdr(d),
                   {Go(IF d.pend = {f}
                       THEN [d EXCEPT !.at = "len", !.pend = {}, !.r = NoRegs, !.new = 0]
                       ELSE [d EXCEPT !.pend = @ \ {f}],
                       StoreAt(m, Hdr(d), f, GrownHeader(d, m)[f])) : f \in d.pend})
      [] d.at = "len" ->
            \* if i >= v.Len() { v.SetLen(i + 1) }
            Access(m, Hdr(d),
                   {Go([d EXCEPT !.at = IF Idx(d) >= v THEN "setCap" ELSE "chk"], m) :
                       v \in Loads(m, Hdr(d), "len")})
      [] d.at = "setCap" ->
            \* SetLen: if uint(n) > uint(s.Cap) { panic }
            Access(m, Hdr(d),
                   {IF Idx(d) + 1 > v THEN Fault(m) ELSE Go([d EXCEPT !.at = "setLen"], m) :
                       v \in Loads(m, Hdr(d), "cap")})
      [] d.at = "setLen" ->
            \* SetLen: s.Len = n
            Access(m, Hdr(d),
                   {Go([d EXCEPT !.at = "chk"], StoreAt(m, Hdr(d), "len", Idx(d) + 1))})
      [] d.at = "chk" ->
            \* if i < v.Len() { d.value(v.Index(i)) } else the item is skipped
            Access(m, Hdr(d),
                   {Go(IF Idx(d) < v THEN [d EXCEPT !.at = "idxLen"] ELSE Advance(d, j), m) :
                       v \in Loads(m, Hdr(d), "len")})
      [] d.at = "idxLen" ->
            \* Index: if uint(i) >= uint(s.Len) { panic }
            Access(m, Hdr(d),
                   {IF Idx(d) >= v THEN Fault(m) ELSE Go([d EXCEPT !.at = "idxPtr"], m) :
                       v \in Loads(m, Hdr(d), "len")})
      [] d.at = "idxPtr" ->
            \* Index: arrayAt(s.Data, i, ...), and d.value on the element
            Access(m, Hdr(d), {Enter(d, j, v, m) : v \in Loads(m, Hdr(d), "ptr")})
      [] d.at = "strStore" ->
            \* literalStore: v.SetString(string(s))
            Access(m, d.str,
                   {IF d.pend = {f}
                    THEN Go(Advance([d EXCEPT !.pend = {}, !.str = ListAt, !.text = <<>>], j),
                            StoreAt(m, d.str, f, IF f = "ptr" THEN d.text ELSE Len(d.text)))
                    ELSE Go([d EXCEPT !.pend = @ \ {f}],
                            StoreAt(m, d.str, f, IF f = "ptr" THEN d.text ELSE Len(d.text))) :
                       f \in d.pend})
      [] d.at = "end" ->
            \* if i < v.Len() { v.SetLen(i) }
            Access(m, Hdr(d),
                   {IF Idx(d) < v THEN Go([d EXCEPT !.at = "cutCap"], m) ELSE EndZero(d, j, m) :
                       v \in Loads(m, Hdr(d), "len")})
      [] d.at = "cutCap" ->
            \* SetLen: if uint(n) > uint(s.Cap) { panic }
            Access(m, Hdr(d),
                   {IF Idx(d) > v THEN Fault(m) ELSE Go([d EXCEPT !.at = "cutLen"], m) :
                       v \in Loads(m, Hdr(d), "cap")})
      [] d.at = "cutLen" ->
            \* SetLen: s.Len = n
            Access(m, Hdr(d), {EndZero(d, j, StoreAt(m, Hdr(d), "len", Idx(d)))})
      [] d.at = "zeroStore" ->
            \* v.Set(reflect.MakeSlice(v.Type(), 0, 0))
            Access(m, Hdr(d),
                   {IF d.pend = {f}
                    THEN Pop([d EXCEPT !.pend = {}], j,
                             StoreAt(m, Hdr(d), f, IF f = "ptr" THEN ZeroBase ELSE 0))
                    ELSE Go([d EXCEPT !.pend = @ \ {f}],
                            StoreAt(m, Hdr(d), f, IF f = "ptr" THEN ZeroBase ELSE 0)) :
                       f \in d.pend})

\* the process has died: the calls that have not returned never do
Killed(calls) ==
    [k \in 1..2 |-> IF calls[k].pc = "done" THEN calls[k]
                    ELSE [calls[k] EXCEPT !.pc = "dead", !.d = NoDecode]]

\* call i does one step of json.Unmarshal(jsonBytes, &c.response): one load
\* or one store of a word of the response.  A panic of package reflect ends
\* the call and a fatal error the process; at the end parseJson returns nil
\* and GetForecast begins.
StepUnmarshal ==
    /\ last.op = "concurrent"
    /\ \E i \in 1..2 :
        LET call == last.calls[i] IN
        /\ call.pc = "parsing"
        /\ \E s \in UnmarshalStep(call.d, call.body[1], last.mem, i) :
            last' = IF s.end = "die"
                    THEN [last EXCEPT !.mem = s.mem, !.calls = Killed(last.calls)]
                    ELSE [last EXCEPT
                            !.mem = s.mem,
                            !.calls[i] =
                                IF s.end = "panic" THEN Finish(call, <<>>, NoErr, TRUE)
                                ELSE IF s.end = "done"
                                THEN [call EXCEPT !.pc = "parsed", !.d = StartRead]
                                ELSE [call EXCEPT !.d = s.d]]
    /\ UNCHANGED client

\* any byte: what lies behind a text in memory
StrayBytes == {"?", "!"}
\* the byte of an address that is not mapped
Unmapped == "unmapped"

\* the strings of the two words text and n: the text itself, its first n
\* bytes, the text followed by the bytes behind it in memory when n is
\* beyond its end, n bytes at the nil address when there is no text, and n
\* bytes of what lies at an address that is no text of a document
StringsOf(text, n) ==
    IF text = WildText THEN [1..n -> StrayBytes]
    ELSE IF n <= Len(text) THEN {SubSeq(text, 1, n)}
    ELSE IF text = <<>> THEN {[k \in 1..n |-> Unmapped]}
    ELSE {text \o t : t \in [1..(n - Len(text)) -> StrayBytes]}

\* one step of GetForecast: c.response.List[0].Weather[0].Description loads
\* len and ptr of List, len and ptr of the Weather of its element 0, and the
\* two words of the Description of its element 0; an index that is not
\* below len is a run-time panic
GetForecastStep(d, m) ==
    CASE d.at = "gList" ->
            {IF d.pend # {f}
             THEN Go([d EXCEPT !.r[f] = Load(m, Cell(ListAt, f)), !.pend = @ \ {f}], m)
             ELSE LET r == [d.r EXCEPT ![f] = Load(m, Cell(ListAt, f))]
                  IN  IF 0 >= r.len THEN Fault(m)
                      ELSE Go([d EXCEPT !.at = "gWeather", !.pend = {"len", "ptr"},
                                        !.r = NoRegs, !.hdr[2] = <<"ent", r.ptr, 0>>], m) :
                f \in d.pend}
      [] d.at = "gWeather" ->
            Access(m, d.hdr[2],
                   UNION {{IF d.pend # {f}
                           THEN Go([d EXCEPT !.r[f] = v, !.pend = @ \ {f}], m)
                           ELSE LET r == [d.r EXCEPT ![f] = v]
                                IN  IF 0 >= r.len THEN Fault(m)
                                    ELSE Go([d EXCEPT !.at = "gText", !.pend = StringWords,
                                                      !.r = NoRegs, !.hdr[2] = ListAt,
                                                      !.str = <<"wth", r.ptr, 0>>], m) :
                              v \in Loads(m, d.hdr[2], f)} : f \in d.pend})
      [] d.at = "gText" ->
            Access(m, d.str,
                   UNION {{[d |-> IF f = "ptr"
                                   THEN [d EXCEPT !.text = v, !.pend = @ \ {f}]
                                   ELSE [d EXCEPT !.r.len = v, !.pend = @ \ {f}],
                            mem |-> m,
                            end |-> IF d.pend = {f} THEN "done" ELSE "no"] :
                              v \in Loads(m, d.str, f)} : f \in d.pend})

\* call i does one step of GetForecast: one load of a word of the response.
\* With the last one ForecastByCity returns the string and a nil error.
StepGetForecast ==
    /\ last.op = "concurrent"
    /\ \E i \in 1..2 :
        LET call == last.calls[i] IN
        /\ call.pc = "parsed"
        /\ \E s \in GetForecastStep(call.d, last.mem) :
            \E out \in IF s.end = "done" THEN StringsOf(s.d.text, s.d.r.len) ELSE {<<>>} :
                last' = IF s.end = "die"
                        THEN [last EXCEPT !.calls = Killed(last.calls)]
                        ELSE [last EXCEPT
                                !.calls[i] =
                                    IF s.end = "panic" THEN Finish(call, <<>>, NoErr, TRUE)
                                    ELSE IF s.end = "done" THEN Finish(call, out, NoErr, FALSE)
                                    ELSE [call EXCEPT !.d = s.d]]
    /\ UNCHANGED client

\* both calls have returned and the caller goes on.  The client holds the
\* response the calls left: as a value when it is one, and else as the
\* words of its memory.
Join ==
    /\ last.op = "concurrent"
    /\ \A i \in 1..2 : last.calls[i].pc = "done"
    /\ last' = Idle
    /\ client' = IF client.variant # "caster" THEN client
                 ELSE [client EXCEPT !.response = IF Expressible(last.mem)
                                                  THEN ResponseView(last.mem)
                                                  ELSE [memory |-> last.mem.w]]

\* the caller goes on after constructing a client
Proceed ==
    /\ last.op \in {"NewClient", "NewClient_WC"}
    /\ last' = Idle
    /\ UNCHANGED client

NextConcurrent ==
    \/ DoNewClient
    \/ DoNewClient_WC
    \/ Proceed
    \/ GoForecasts
    \/ StepQuery
    \/ StepFormat
    \/ StepParseBegin
    \/ StepUnmarshal
    \/ StepGetForecast
    \/ Join

SpecConcurrent == Init /\ [][NextConcurrent]_vars

-----------------------------------------------------------------------------
(* Reading a URL and a forecast back, for the properties below *)

\* the query string of a URL: what follows the first "?"
QueryString(url) == Drop(url, IndexOfChar(url, "?"))

\* name=value, split at the first "="
Param(piece) ==
    LET i == IndexOfChar(piece, "=")
    IN  IF i = 0 THEN [name |-> piece, value |-> <<>>]
        ELSE [name |-> SubSeq(piece, 1, i - 1), value |-> Drop(piece, i)]

\* the query parameters of a URL, in the order they appear
Params(url) ==
    LET pieces == SplitChar(QueryString(url), "&")
    IN  [i \in 1..Len(pieces) |-> Param(pieces[i])]

ParamNames(url) == [i \in 1..Len(Params(url)) |-> Params(url)[i].name]

\* the values of the parameters called name
ParamValues(url, name) ==
    {Params(url)[i].value : i \in {j \in 1..Len(Params(url)) : Params(url)[j].name = name}}

ParamCount(url, name) ==
    Cardinality({j \in 1..Len(Params(url)) : Params(url)[j].name = name})

QName == <<"q">>
AppidName == <<"a", "p", "p", "i", "d">>
UnitsName == <<"u", "n", "i", "t", "s">>
CntName == <<"c", "n", "t">>

\* the calls that form a request URL, and the URL they formed
FormsURL == last.op \in {"Forecast", "Forecast_U", "ForecastByCity", "formAPIUrl", "FormUrl", "HttpGet"}
LastURL == IF last.op \in {"Forecast", "Forecast_U", "ForecastByCity"} THEN last.r.url ELSE last.url

\* the unit system a client is configured for, or "none" when its setting
\* is none of Standard (Kelvin, m/s), Metric (Celsius, m/s), Imperial (Fahrenheit, miles/h)
UnitSystem(c) ==
    CASE c.variant = "units" /\ ToLower(c.Units) = Standard -> "Standard"
      [] c.variant = "units" /\ ToLower(c.Units) = Metric -> "Metric"
      [] c.variant = "units" /\ ToLower(c.Units) = Imperial -> "Imperial"
      [] c.variant = "enum" /\ c.tempUnit = TempUnitKelvin /\ c.speedUnit = SpeedUnitMeters
            -> "Standard"
      [] c.variant = "enum" /\ c.tempUnit = TempUnitCelsius /\ c.speedUnit = SpeedUnitMeters
            -> "Metric"
      [] c.variant = "enum" /\ c.tempUnit = TempUnitFahrenheit /\ c.speedUnit = SpeedUnitMiles
            -> "Imperial"
      [] c.variant = "caster" -> "Imperial"
      [] OTHER -> "none"

\* what the claim of C1 asks of a URL formed under unit system u
UnitsParamAsSpecified(url, u) ==
    /\ (ParamCount(url, UnitsName) = 0) <=> (u = "Standard")
    /\ u = "Metric" => ParamValues(url, UnitsName) = {Metric}
    /\ u = "Imperial" => ParamValues(url, UnitsName) = {Imperial}
    /\ Standard \notin ParamValues(url, UnitsName)

-----------------------------------------------------------------------------
(* C1 *)

\* C1 as stated: every URL formed for a forecast, by formAPIUrl or inline in
\* Forecast, has no units parameter iff the unit system is Standard, has
\* units=metric for Metric and units=imperial for Imperial, and never
\* units=standard.
C1_UnitsParamEverywhere ==
    (FormsURL /\ UnitSystem(client) # "none") =>
        UnitsParamAsSpecified(LastURL, UnitSystem(client))

\* C1 amended: formAPIUrl of the Units-string client (also when Forecast calls
\* it) omits the units parameter iff Units is "standard" in any letter case and
\* emits exactly units=metric / units=imperial for those two; the URL the
\* unit-enum Forecast forms never has a units parameter, whatever its
\* temperature and speed units; no client ever emits units=standard.
C1_UnitsParam ==
    /\ (last.op \in {"formAPIUrl", "Forecast_U"}) =>
          /\ (ParamCount(LastURL, UnitsName) = 0) <=> (ToLower(client.Units) = Standard)
          /\ ParamCount(LastURL, UnitsName) <= 1
          /\ UnitSystem(client) \in {"Metric", "Imperial"} =>
                UnitsParamAsSpecified(LastURL, UnitSystem(client))
    /\ last.op = "Forecast" => ParamCount(LastURL, UnitsName) = 0
    /\ FormsURL => Standard \notin ParamValues(LastURL, UnitsName)

\* a URL was formed for a client whose Units is "Standard" written with a
\* capital, and for a location with a reserved character
C1_Witness ==
    /\ last.op = "formAPIUrl"
    /\ client.Units # Standard
    /\ ToLower(client.Units) = Standard
    /\ Contains(last.location, <<"&">>)
    /\ ParamCount(last.url, UnitsName) = 0

-----------------------------------------------------------------------------
(* C2 *)

\* a 200 response whose JSON decodes and whose list, or whose first entry's
\* weather array, is missing or empty
ListOrWeatherEmpty(resp) ==
    /\ resp.fail = "none"
    /\ resp.status = StatusOK
    /\ resp.body.valid
    /\ \/ resp.body.list = Nil
       \/ resp.body.list[1] = <<>>
       \/ Items(resp.body.list[1][1].weather) = <<>>

\* the first entry of the list of a response that has one
FirstEntry(resp) == resp.body.list[1][1]

\* C2: when the decoded list is empty, or the first entry's weather array is
\* empty, queryAPI of the unit-enum and of the Units-string client returns an
\* error, Forecast returns that error with an empty string, and nothing is
\* handed to the formatter.
C2_EmptyListOrWeatherFails ==
    (last.op \in {"Forecast", "Forecast_U"} /\ ListOrWeatherEmpty(last.resp)) =>
        /\ last.r.err.kind = "forecast"
        /\ last.r.err.cause.kind \in {"emptyList", "emptyWeather"}
        /\ ~last.r.formatted
        /\ ~last.r.panic
        /\ last.r.out = <<>>
        /\ last.op = "Forecast" => last.r.cond = NoConditions

\* Forecast ran on the document {"list":[]} and failed on the empty list
C2_Witness ==
    /\ last.op = "Forecast"
    /\ last.resp.fail = "none" /\ last.resp.status = StatusOK
    /\ last.resp.body = [valid |-> TRUE, list |-> Some(<<>>)]
    /\ last.r.err.kind = "forecast"
    /\ last.r.err.cause.kind = "emptyList"

-----------------------------------------------------------------------------
(* C3 *)

\* the four readings of the first entry as the upstream JSON carries them
JSONReadings(resp) ==
    <<FirstEntry(resp).main.temp, FirstEntry(resp).main.feels_like,
      FirstEntry(resp).main.humidity, FirstEntry(resp).wind.speed>>

\* the four readings as the normaliser recorded them: Nil for absent, <<x>>
\* for the number x.  The Units-string client records plain float64 values.
RecordedReadings ==
    IF last.op = "Forecast"
    THEN <<last.r.cond.temperature, last.r.cond.feelsLike, last.r.cond.humidity,
           last.r.cond.windSpeed>>
    ELSE <<Some(last.r.ar.List[1].Main.Temp), Some(last.r.ar.List[1].Main.Feels_like),
           Some(last.r.ar.List[1].Main.Humidity), Some(last.r.ar.List[1].Wind.Speed)>>

\* C3 as stated: for each of temp, feels_like, humidity and wind speed, a
\* reading missing from the JSON is recorded as absent, never as the number
\* 0, and a reading present with value 0 is recorded as present with value 0.
C3_AbsentIsNotZero ==
    (last.op \in {"Forecast", "Forecast_U"} /\ last.r.formatted) =>
        \A i \in 1..4 :
            /\ JSONReadings(last.resp)[i] = Nil => RecordedReadings[i] = Nil
            /\ JSONReadings(last.resp)[i] = Some(0) => RecordedReadings[i] = Some(Num(0))

\* C3 for the unit-enum client alone, whose owmResponse decodes into pointers:
\* there the claim holds.
C3_EnumAbsentIsNotZero ==
    (last.op = "Forecast" /\ last.r.formatted) =>
        \A i \in 1..4 :
            /\ JSONReadings(last.resp)[i] = Nil => RecordedReadings[i] = Nil
            /\ JSONReadings(last.resp)[i] = Some(0) => RecordedReadings[i] = Some(Num(0))

-----------------------------------------------------------------------------
(* C4 *)

\* C4 as stated: every conditions value queryAPI returns without error has
\* its description present, so formatForecast never reads an absent one.
C4_DescriptionPresent ==
    (last.op = "Forecast" /\ last.r.formatted) =>
        /\ last.r.cond.description # Nil
        /\ ~last.r.panic

-----------------------------------------------------------------------------
(* C5 *)

TempKeyword == <<"t", "e", "m", "p", " ">>
FeelsKeyword == <<"f", "e", "e", "l", "s", " ", "l", "i", "k", "e", " ">>
HumidityKeyword == <<"h", "u", "m", "i", "d", "i", "t", "y", " ">>
WindKeyword == <<"w", "i", "n", "d", " ">>
ClauseKeywords == <<TempKeyword, FeelsKeyword, HumidityKeyword, WindKeyword>>

\* the smallest element of a non-empty set of numbers
Min(S) == CHOOSE x \in S : \A y \in S : x <= y

\* where the clause with keyword kw starts in out, or 0
ClausePos(out, kw) == IF Contains(out, kw) THEN Min(Occurrences(out, kw)) ELSE 0

\* out is the description followed by exactly the clauses of the readings
\* that are present, each once, in the order temp, feels like, humidity, wind
ClausesFollow(out, description, readings) ==
    /\ StartsWith(out, description)
    /\ \A i \in 1..4 :
          Cardinality(Occurrences(out, ClauseKeywords[i])) = (IF readings[i] # Nil THEN 1 ELSE 0)
    /\ \A i, j \in 1..4 :
          (i < j /\ readings[i] # Nil /\ readings[j] # Nil) =>
              /\ ClausePos(out, ClauseKeywords[i]) > Len(description)
              /\ ClausePos(out, ClauseKeywords[i]) < ClausePos(out, ClauseKeywords[j])

\* C5 as stated: for every combination of present and absent readings the
\* forecast is the description followed by exactly the clauses whose reading
\* is present, in the order temp, feels like, humidity, wind.
C5_ClausesFollowPresence ==
    (/\ last.op \in {"Forecast", "Forecast_U"}
     /\ last.r.formatted
     /\ Items(FirstEntry(last.resp).weather)[1].description # Nil) =>
        ClausesFollow(last.r.out, Items(FirstEntry(last.resp).weather)[1].description[1],
                      JSONReadings(last.resp))

\* C5 for the unit-enum client alone: there the claim holds.
C5_EnumClausesFollowPresence ==
    (/\ last.op = "Forecast"
     /\ last.r.formatted
     /\ Items(FirstEntry(last.resp).weather)[1].description # Nil) =>
        ClausesFollow(last.r.out, Items(FirstEntry(last.resp).weather)[1].description[1],
                      JSONReadings(last.resp))

-----------------------------------------------------------------------------
(* C6 *)

NumberChars == {"0", "1", "2", "3", "4", "5", "6", "7", "8", "9", ".", "-"}

\* s without the number it starts with
RECURSIVE SkipNumber(_)
SkipNumber(s) ==
    IF s # <<>> /\ s[1] \in NumberChars THEN SkipNumber(Tail(s)) ELSE s

\* s up to the end of its clause: the next ",", ")" or " ("
RECURSIVE ClauseRest(_)
ClauseRest(s) ==
    IF s = <<>> \/ s[1] \in {",", ")"} \/ StartsWith(s, <<" ", "(">>)
    THEN <<>>
    ELSE <<s[1]>> \o ClauseRest(Tail(s))

\* what follows the number of the clause with keyword kw, up to the end of
\* the clause: the separator and the unit label as printed
PrintedLabel(out, kw) ==
    ClauseRest(SkipNumber(Drop(out, ClausePos(out, kw) + Len(kw) - 1)))

\* the unit in which a client reports temperatures: "K", "C", "F" or "none"
TempUnitOfClient(c) ==
    CASE c.variant = "enum" ->
            (CASE c.tempUnit = TempUnitKelvin -> "K"
               [] c.tempUnit = TempUnitCelsius -> "C"
               [] c.tempUnit = TempUnitFahrenheit -> "F"
               [] OTHER -> "none")
      [] c.variant = "units" ->
            (CASE ToLower(c.Units) = Standard -> "K"
               [] ToLower(c.Units) = Metric -> "C"
               [] ToLower(c.Units) = Imperial -> "F"
               [] OTHER -> "none")
      [] OTHER -> "none"

\* the unit in which a client reports wind speed: "m/s", "MPH" or "none"
SpeedUnitOfClient(c) ==
    CASE c.variant = "enum" ->
            (CASE c.speedUnit = SpeedUnitMeters -> "m/s"
               [] c.speedUnit = SpeedUnitMiles -> "MPH"
               [] OTHER -> "none")
      [] c.variant = "units" ->
            (CASE ToLower(c.Units) \in {Standard, Metric} -> "m/s"
               [] ToLower(c.Units) = Imperial -> "MPH"
               [] OTHER -> "none")
      [] OTHER -> "none"

\* the labels as the specification gives them
SpecTempLabel(u) ==
    CASE u = "K" -> <<"º", "K">> [] u = "C" -> <<"º", "C">> [] u = "F" -> <<"º", "F">>
SpecSpeedLabel(u) ==
    CASE u = "m/s" -> <<"m", "/", "s">> [] u = "MPH" -> <<"M", "P", "H">>

\* the labels as the unit-enum client prints them, separator included
EnumTempText(u) ==
    CASE u = "K" -> <<"K">> [] u = "C" -> <<" ", "º", "C">> [] u = "F" -> <<" ", "º", "F">>
EnumSpeedText(u) ==
    CASE u = "m/s" -> <<" ", "m", "/", "s">> [] u = "MPH" -> <<" ", "m", "p", "h">>

\* a forecast was formatted by a client reporting in recognised units
FormattedForecast ==
    /\ last.op \in {"Forecast", "Forecast_U"}
    /\ last.r.formatted
    /\ ~last.r.panic
    /\ TempUnitOfClient(client) # "none"

\* C6 as stated: after a temperature the label is ºK, ºC or ºF, after a wind
\* speed it is m/s or MPH, each separated from the number by one space.
C6_LabelsAsSpecified ==
    FormattedForecast =>
        /\ \A kw \in {TempKeyword, FeelsKeyword} :
              Contains(last.r.out, kw) =>
                  PrintedLabel(last.r.out, kw) =
                      <<" ">> \o SpecTempLabel(TempUnitOfClient(client))
        /\ Contains(last.r.out, WindKeyword) =>
              PrintedLabel(last.r.out, WindKeyword) =
                  <<" ">> \o SpecSpeedLabel(SpeedUnitOfClient(client))

\* C6 amended: the Units-string client prints the labels as stated; the
\* unit-enum client prints "K" directly after the number, " ºC" and " ºF"
\* after one space, and " m/s" and " mph" (lower case) after one space.  A
\* line written by the RunCLI of README.md carries the labels as stated.
C6_Labels ==
    /\ (last.op = "RunCLI_README" /\ last.r.err = NoErr /\ ~last.r.panic
            /\ ~last.r.exit /\ last.r.c # Nil) =>
          /\ \A kw \in {TempKeyword, FeelsKeyword} :
                Contains(Line(last.r.output), kw) =>
                    PrintedLabel(Line(last.r.output), kw) =
                        <<" ">> \o SpecTempLabel(TempUnitOfClient(last.r.c[1]))
          /\ Contains(Line(last.r.output), WindKeyword) =>
                PrintedLabel(Line(last.r.output), WindKeyword) =
                    <<" ">> \o SpecSpeedLabel(SpeedUnitOfClient(last.r.c[1]))
    /\ FormattedForecast =>
        /\ \A kw \in {TempKeyword, FeelsKeyword} :
              Contains(last.r.out, kw) =>
                  PrintedLabel(last.r.out, kw) =
                      IF last.op = "Forecast"
                      THEN EnumTempText(TempUnitOfClient(client))
                      ELSE <<" ">> \o SpecTempLabel(TempUnitOfClient(client))
        /\ Contains(last.r.out, WindKeyword) =>
              PrintedLabel(last.r.out, WindKeyword) =
                  IF last.op = "Forecast"
                  THEN EnumSpeedText(SpeedUnitOfClient(client))
                  ELSE <<" ">> \o SpecSpeedLabel(SpeedUnitOfClient(client))

\* the unit-enum client set to Kelvin and miles per hour printed a forecast
\* with a temperature and a wind clause
C6_Witness ==
    /\ last.op = "Forecast"
    /\ last.r.formatted /\ ~last.r.panic
    /\ client.tempUnit = TempUnitKelvin
    /\ client.speedUnit = SpeedUnitMiles
    /\ Contains(last.r.out, TempKeyword)
    /\ Contains(last.r.out, WindKeyword)

-----------------------------------------------------------------------------
(* C7 *)

\* err is the status error made from resp: it carries the status and the body
CarriesStatus(err, resp) ==
    /\ err.kind = "status"
    /\ err.status = resp.status
    /\ err.body = resp.body

\* C7 as stated: whenever the upstream answers with a status outside 200..299
\* the operation returns an error carrying the status and the raw body, and
\* the body is never decoded.
C7_StatusCheckedBeforeDecode ==
    (/\ last.op \in {"Forecast", "Forecast_U", "ForecastByCity", "HttpGet"}
     /\ last.resp.fail = "none"
     /\ last.resp.status \notin 200..299) =>
        IF last.op = "HttpGet"
        THEN CarriesStatus(last.r.err, last.resp)
        ELSE /\ last.r.err.kind = "forecast"
             /\ CarriesStatus(last.r.err.cause, last.resp)
             /\ ~last.r.unmarshalled

\* C7 for the unit-enum and Units-string clients alone, which compare the
\* status with 200: there the claim holds.
C7_StatusNot200Rejected ==
    (/\ last.op \in {"Forecast", "Forecast_U"}
     /\ last.resp.fail = "none"
     /\ last.resp.status \notin 200..299) =>
        /\ last.r.err.kind = "forecast"
        /\ CarriesStatus(last.r.err.cause, last.resp)
        /\ ~last.r.unmarshalled

-----------------------------------------------------------------------------
(* C8 *)

\* option o asks for a unit outside the recognised set
UnrecognizedUnit(o) ==
    \/ o.name = "WithTempUnit"
          /\ o.unit \notin {TempUnitFahrenheit, TempUnitCelsius, TempUnitKelvin}
    \/ o.name = "WithSpeedUnit" /\ o.unit \notin {SpeedUnitMiles, SpeedUnitMeters}
    \/ o.name = "WithUnits" /\ ToLower(o.text) \notin {Standard, Metric, Imperial}

\* C8 as stated: a construction that asks for an unrecognised unit returns an
\* error and no client, so no forecast is ever formatted under such a unit.
C8_UnrecognizedUnitRejected ==
    /\ (/\ last.op \in {"NewClient", "NewClient_U"}
        /\ \E i \in 1..Len(last.options) : UnrecognizedUnit(last.options[i])) =>
            /\ last.err # NoErr
            /\ last.c = Nil
            /\ client = NoClient
    /\ (last.op \in {"Forecast", "Forecast_U"} /\ last.r.formatted) =>
            /\ TempUnitOfClient(client) # "none"
            /\ SpeedUnitOfClient(client) # "none"

\* C8 for the unit-enum client alone, whose options go through SetTempUnit
\* and SetSpeedUnit: there the claim holds.
C8_EnumUnrecognizedUnitRejected ==
    /\ (/\ last.op = "NewClient"
        /\ \E i \in 1..Len(last.options) : UnrecognizedUnit(last.options[i])) =>
            /\ last.err # NoErr
            /\ last.c = Nil
            /\ client = NoClient
    /\ (last.op = "Forecast" /\ last.r.formatted) =>
            /\ TempUnitOfClient(client) # "none"
            /\ SpeedUnitOfClient(client) # "none"

-----------------------------------------------------------------------------
(* C9 *)

\* scheme, host and path of the endpoint a client is configured with
Endpoint(c) ==
    CASE c.variant = "enum" -> c.APIHost \o c.APIURI
      [] c.variant = "units" -> c.APIHost \o c.APIUri
      [] c.variant = "caster" -> <<"h", "t", "t", "p", "s", ":", "/", "/">> \o c.ApiHost \o c.ApiUri

\* C9: every URL a client builds is the endpoint followed by the query
\* parameters q, appid, then units if there is one, then cnt, in that order
\* and with no other parameter.
C9_ParameterOrder ==
    FormsURL =>
        /\ StartsWith(LastURL, Endpoint(client) \o <<"/", "?">>)
        /\ ParamNames(LastURL) \in {<<QName, AppidName, CntName>>,
                                    <<QName, AppidName, UnitsName, CntName>>}

\* the Units-string client pointed at another host built a URL with all four
\* parameters for a location that needs escaping
C9_Witness ==
    /\ last.op = "formAPIUrl"
    /\ client.APIHost = TestHost
    /\ Contains(last.location, <<",">>)
    /\ ParamNames(last.url) = <<QName, AppidName, UnitsName, CntName>>

-----------------------------------------------------------------------------
(* C10 *)

\* C10: every URL a client builds has exactly one cnt parameter and its value
\* is 1, whatever the location, the units and the configured host.
C10_CntIsOne ==
    FormsURL =>
        /\ ParamCount(LastURL, CntName) = 1
        /\ ParamValues(LastURL, CntName) = {<<"1">>}

\* the unit-enum client reporting in Kelvin asked for a location holding "&"
C10_Witness ==
    /\ last.op = "Forecast"
    /\ client.tempUnit = TempUnitKelvin
    /\ Contains(last.location, <<"&">>)
    /\ ParamCount(last.r.url, CntName) = 1

-----------------------------------------------------------------------------
(* C11 *)

\* the characters whose %XX code HexCode gives
Reserved == {",", "&", "=", "#", "/", "?", "%", "+", ":"}

\* the character a %XX code stands for, or "" when the code is not one of
\* those above
CharOfHex(h) ==
    IF \E c \in Reserved : HexCode(c) = h
    THEN CHOOSE c \in Reserved : HexCode(c) = h
    ELSE ""

\* percent-decoding of a query component, as url.QueryUnescape does it: "+"
\* is a space, %XX the character with that code, anything else itself; ok is
\* FALSE for text that is not valid percent-encoding
RECURSIVE QueryUnescape(_)
QueryUnescape(s) ==
    IF s = <<>> THEN [ok |-> TRUE, text |-> <<>>]
    ELSE IF s[1] = "+"
    THEN LET r == QueryUnescape(Tail(s)) IN [ok |-> r.ok, text |-> <<" ">> \o r.text]
    ELSE IF s[1] = "%"
    THEN IF Len(s) < 3 \/ CharOfHex(SubSeq(s, 2, 3)) = ""
         THEN [ok |-> FALSE, text |-> <<>>]
         ELSE LET r == QueryUnescape(Drop(s, 3))
              IN  [ok |-> r.ok, text |-> <<CharOfHex(SubSeq(s, 2, 3))>> \o r.text]
    ELSE IF s[1] \in Unreserved
    THEN LET r == QueryUnescape(Tail(s)) IN [ok |-> r.ok, text |-> <<s[1]>> \o r.text]
    ELSE [ok |-> FALSE, text |-> <<>>]

\* the value of the one parameter called name
TheValue(url, name) == CHOOSE v \in ParamValues(url, name) : TRUE

\* C11: in every URL a client builds there is exactly one q parameter, its
\* value is valid percent-encoded text that decodes back to exactly the
\* location asked for, and the location adds or alters no other parameter:
\* appid is still the client's key and the parameter names are q, appid,
\* units (if any) and cnt.
C11_LocationRoundTrip ==
    FormsURL =>
        /\ ParamCount(LastURL, QName) = 1
        /\ QueryUnescape(TheValue(LastURL, QName)).ok
        /\ QueryUnescape(TheValue(LastURL, QName)).text = last.location
        /\ ParamValues(LastURL, AppidName) =
              {IF client.variant = "caster" THEN client.ApiKey ELSE client.APIKey}
        /\ ParamNames(LastURL) \in {<<QName, AppidName, CntName>>,
                                    <<QName, AppidName, UnitsName, CntName>>}

\* a URL was built for a location made of "&" and "=", and one for a
\* location with a comma and a space
C11_Witness ==
    /\ last.op \in {"Forecast", "formAPIUrl", "FormUrl"}
    /\ last.location \in {<<"&", "=">>, <<",", " ">>, <<"#", "&">>}
    /\ QueryUnescape(TheValue(LastURL, QName)).text = last.location
    /\ TheValue(LastURL, QName) # last.location

-----------------------------------------------------------------------------
(* C12 *)

\* the number s starts with
RECURSIVE TakeNumber(_)
TakeNumber(s) ==
    IF s # <<>> /\ s[1] \in NumberChars THEN <<s[1]>> \o TakeNumber(Tail(s)) ELSE <<>>

\* the number printed in the clause with keyword kw
PrintedNumber(out, kw) == TakeNumber(Drop(out, ClausePos(out, kw) + Len(kw) - 1))

\* the temperature the specification gives for h hundredths of a Kelvin:
\* unchanged for Kelvin, kelvin - 273.15 for Celsius, 1.8 * (kelvin - 273) + 32
\* for Fahrenheit
SpecTemperature(unit, h) ==
    CASE unit = TempUnitKelvin -> Num(h)
      [] unit = TempUnitCelsius -> FAdd(Num(h), FNeg(FromDecimal(27315, 2)))
      [] unit = TempUnitFahrenheit ->
            FAdd(FromDecimal(32, 0),
                 FMul(FAdd(Num(h), FNeg(FromDecimal(273, 0))), FromDecimal(18, 1)))

\* C12: ConvertTemp returns the Kelvin value unchanged for Kelvin, less
\* 273.15 for Celsius and 1.8 * (kelvin - 273) + 32 for Fahrenheit, and the
\* temp clause and the feels-like clause of a forecast both print the reading
\* converted that way.
C12_TempConversion ==
    (last.op = "Forecast" /\ last.r.formatted /\ ~last.r.panic) =>
        LET e == FirstEntry(last.resp)
        IN  /\ e.main.temp # Nil =>
                  /\ FEq(ConvertTemp(client, Num(e.main.temp[1])),
                         SpecTemperature(client.tempUnit, e.main.temp[1]))
                  /\ PrintedNumber(last.r.out, TempKeyword) =
                        FmtF1(SpecTemperature(client.tempUnit, e.main.temp[1]))
            /\ e.main.feels_like # Nil =>
                  /\ FEq(ConvertTemp(client, Num(e.main.feels_like[1])),
                         SpecTemperature(client.tempUnit, e.main.feels_like[1]))
                  /\ PrintedNumber(last.r.out, FeelsKeyword) =
                        FmtF1(SpecTemperature(client.tempUnit, e.main.feels_like[1]))

\* a Fahrenheit client printed 286.12 K as 55.6 and 285.71 K as 54.9 (with
\* the offset 273.15 they would read 55.3 and 54.6)
C12_Witness ==
    /\ last.op = "Forecast"
    /\ last.r.formatted
    /\ client.tempUnit = TempUnitFahrenheit
    /\ FirstEntry(last.resp).main.temp = Some(28612)
    /\ FirstEntry(last.resp).main.feels_like = Some(28571)
    /\ PrintedNumber(last.r.out, TempKeyword) = <<"5", "5", ".", "6">>
    /\ PrintedNumber(last.r.out, FeelsKeyword) = <<"5", "4", ".", "9">>

-----------------------------------------------------------------------------
(* C13 *)

\* the unit-enum client set to Fahrenheit and miles per hour formatted the
\* worked example
ImperialExample ==
    /\ last.op = "Forecast"
    /\ last.r.formatted
    /\ client.tempUnit = TempUnitFahrenheit
    /\ client.speedUnit = SpeedUnitMiles
    /\ last.resp.body = ExampleDoc

\* C13 as stated: the worked example under Imperial units reads
\* "clear sky, temp 82.8 ºF, feels like 80.8 ºF, humidity 38.0%, wind 9.2 MPH".
C13_ExampleAsSpecified ==
    ImperialExample =>
        last.r.out =
            ClearSky \o <<",", " ", "t", "e", "m", "p", " ", "8", "2", ".", "8", " ", "º", "F",
                          ",", " ", "f", "e", "e", "l", "s", " ", "l", "i", "k", "e", " ",
                          "8", "0", ".", "8", " ", "º", "F",
                          ",", " ", "h", "u", "m", "i", "d", "i", "t", "y", " ",
                          "3", "8", ".", "0", "%",
                          ",", " ", "w", "i", "n", "d", " ", "9", ".", "2", " ", "M", "P", "H">>

\* C13 amended: the worked example under Imperial units reads
\* "clear sky, temp 82.7 ºF, feels like 80.6 ºF, humidity 38.0%, wind 9.2 mph".
C13_Example ==
    ImperialExample =>
        last.r.out =
            ClearSky \o <<",", " ", "t", "e", "m", "p", " ", "8", "2", ".", "7", " ", "º", "F",
                          ",", " ", "f", "e", "e", "l", "s", " ", "l", "i", "k", "e", " ",
                          "8", "0", ".", "6", " ", "º", "F",
                          ",", " ", "h", "u", "m", "i", "d", "i", "t", "y", " ",
                          "3", "8", ".", "0", "%",
                          ",", " ", "w", "i", "n", "d", " ", "9", ".", "2", " ", "m", "p", "h">>

\* the worked example was formatted under Imperial units and all four
\* clauses were printed
C13_Witness ==
    /\ ImperialExample
    /\ ~last.r.panic
    /\ \A i \in 1..4 : Contains(last.r.out, ClauseKeywords[i])

-----------------------------------------------------------------------------
(* C14 *)

\* the calls that return a forecast
ForecastOps == {"Forecast", "Forecast_U", "ForecastByCity"}

\* the last call handed a result to its formatter: formatForecast, or
\* GetForecast of the weatherCaster client
FormatterInvoked ==
    IF last.op = "ForecastByCity" THEN last.r.err = NoErr ELSE last.r.formatted

\* the fetch, the status check, the decode and the checks of a non-empty
\* list and a non-empty weather array all succeed on resp
ChecksSucceed(resp) ==
    /\ resp.fail = "none"
    /\ resp.status \in 200..299
    /\ resp.body.valid
    /\ resp.body.list # Nil
    /\ resp.body.list[1] # <<>>
    /\ Items(resp.body.list[1][1].weather) # <<>>

\* C14 as stated: a forecast call that returns an error returns the empty
\* string, and the formatter runs only when the fetch, the status check, the
\* decode and the non-empty list and weather checks have all succeeded.
C14_NoPartialResults ==
    last.op \in ForecastOps =>
        /\ last.r.err # NoErr => last.r.out = <<>>
        /\ FormatterInvoked => ChecksSucceed(last.resp)

\* C14 for the unit-enum and the Units-string client alone: there the claim
\* holds.
C14_ForecastNoPartialResults ==
    last.op \in {"Forecast", "Forecast_U"} =>
        /\ last.r.err # NoErr => last.r.out = <<>>
        /\ FormatterInvoked => ChecksSucceed(last.resp)

-----------------------------------------------------------------------------
(* C15 *)

\* C15: every forecast call, whatever its outcome, calls the HTTP client's
\* Get exactly once, with the URL it built.
C15_OneRequest ==
    last.op \in ForecastOps =>
        /\ Len(last.r.requests) = 1
        /\ last.r.requests[1] = last.r.url

\* Forecast of the unit-enum client failed and had sent one request; the
\* failure was a transport error
C15_Witness ==
    /\ last.op = "Forecast"
    /\ last.resp.fail = "get"
    /\ last.r.err # NoErr
    /\ last.r.requests = <<last.r.url>>

-----------------------------------------------------------------------------
(* C16 *)

\* C16 as stated: when the fetch fails with a transport error, the error the
\* caller of a forecast call receives is that transport error itself.
C16_TransportErrorUnmodified ==
    (last.op \in ForecastOps /\ last.resp.fail = "get") =>
        last.r.err = ErrGet(last.r.url)

\* what the code does instead: the caller receives a new error that names
\* the location and quotes the text of the transport error
C16_TransportErrorQuoted ==
    (last.op \in ForecastOps /\ last.resp.fail = "get") =>
        /\ last.r.err.kind = "forecast"
        /\ last.r.err.location = last.location
        /\ last.r.err.cause = ErrGet(last.r.url)

-----------------------------------------------------------------------------
(* C17 *)

\* what call i returns when it runs alone on the client the calls started with
Alone(i) ==
    IF last.start.variant = "caster"
    THEN ForecastByCity(last.start, last.calls[i].location, last.calls[i].resp)
    ELSE Forecast(last.start, last.calls[i].location, last.calls[i].resp)

\* call i has returned what its own location and response determine: nothing
\* the other call has written has reached its result
OwnResult(i) ==
    /\ last.calls[i].out = Alone(i).out
    /\ last.calls[i].err = Alone(i).err
    /\ last.calls[i].panic = Alone(i).panic

\* C17 as stated: of two forecast calls running at once on one client, in
\* every interleaving each returns the forecast or error determined by its
\* own location and its own upstream response, and reads nothing the other
\* has written.
C17_ConcurrentCallsIndependent ==
    last.op = "concurrent" =>
        \A i \in 1..2 : last.calls[i].pc = "done" => OwnResult(i)

\* C17 for the unit-enum client alone, whose Forecast keeps everything in
\* local variables: there the claim holds.
C17_EnumConcurrentCallsIndependent ==
    (last.op = "concurrent" /\ last.start.variant = "enum") =>
        \A i \in 1..2 : last.calls[i].pc = "done" => OwnResult(i)

-----------------------------------------------------------------------------
(* C18 *)

\* the client with nothing left in it from earlier calls
Forgetful(c) ==
    IF c.variant = "caster" THEN [c EXCEPT !.response = [List |-> <<>>, spare |-> <<>>]]
    ELSE c

\* what the last forecast call returns on a client of the same configuration
\* that has made no call before
FirstCallResult ==
    CASE last.op = "Forecast" -> Forecast(Forgetful(client), last.location, last.resp)
      [] last.op = "Forecast_U" -> Forecast_U(Forgetful(client), last.location, last.resp)
      [] last.op = "ForecastByCity" ->
            ForecastByCity(Forgetful(client), last.location, last.resp)

\* C18 as stated: after any sequence of forecast calls on a client, the
\* result of a call is the one determined by its location, the client's
\* configuration and its own upstream response; nothing parsed from an
\* earlier response appears in it.
C18_NoCarryOver ==
    last.op \in ForecastOps =>
        /\ last.r.out = FirstCallResult.out
        /\ last.r.err = FirstCallResult.err
        /\ last.r.panic = FirstCallResult.panic

\* C18 for the unit-enum and the Units-string client alone: Forecast leaves
\* the client as it was and returns what a first call returns.
C18_ForecastNoCarryOver ==
    [][/\ last'.op = "Forecast" =>
            /\ client' = client
            /\ last'.r = Forecast(Forgetful(client), last'.location, last'.resp)
       /\ last'.op = "Forecast_U" =>
            /\ client' = client
            /\ last'.r = Forecast_U(Forgetful(client), last'.location, last'.resp)]_vars

-----------------------------------------------------------------------------
(* C19 *)

\* the client with another API key and everything else the same
WithKey(c, k) ==
    IF c.variant = "caster" THEN [c EXCEPT !.ApiKey = k] ELSE [c EXCEPT !.APIKey = k]

\* what the caller of the last forecast call would have been handed, had the
\* client held API key k
ResultWithKey(k) ==
    CASE last.op = "Forecast" -> Forecast(WithKey(client, k), last.location, last.resp)
      [] last.op = "Forecast_U" -> Forecast_U(WithKey(client, k), last.location, last.resp)

\* the strings an error message interpolates: the request URL for a
\* transport error, the location for an error of Forecast, and those of the
\* error it wraps
ErrorStrings(err) ==
    LET own(e) == CASE e.kind = "get" -> {e.url}
                    [] e.kind \in {"forecast", "parse"} -> {e.location}
                    [] OTHER -> {}
    IN  own(err) \cup (IF "cause" \in DOMAIN err THEN own(err.cause) ELSE {})

\* C19 as stated: whatever the outcome of Forecast, the string and the error
\* it returns do not contain the API key, so that the same call made with a
\* different key returns the same string and the same error.
C19_KeyNeverInOutput ==
    last.op \in {"Forecast", "Forecast_U"} =>
        /\ ~Contains(last.r.out, client.APIKey)
        /\ \A t \in ErrorStrings(last.r.err) : ~Contains(t, client.APIKey)
        /\ \A k \in Keys : /\ ResultWithKey(k).out = last.r.out
                            /\ ResultWithKey(k).err = last.r.err

\* what the code guarantees: the key shows in the returned error exactly
\* when the request itself failed, through the URL the transport error
\* quotes; every other outcome is the same for every key
C19_KeyOnlyInTransportError ==
    last.op \in {"Forecast", "Forecast_U"} =>
        IF last.resp.fail = "get"
        THEN /\ last.r.err.cause = ErrGet(last.r.url)
             /\ Contains(last.r.url, client.APIKey)
        ELSE /\ ~Contains(last.r.out, client.APIKey)
             /\ \A t \in ErrorStrings(last.r.err) : ~Contains(t, client.APIKey)
             /\ \A k \in Keys : /\ ResultWithKey(k).out = last.r.out
                                 /\ ResultWithKey(k).err = last.r.err

-----------------------------------------------------------------------------
(* C20 *)

\* the failure kinds of a forecast call, by the error queryAPI makes of them
FailureKinds == {"get", "read", "status", "decode", "emptyList", "emptyWeather"}

\* C20: every error Forecast returns names the location the call was given,
\* whichever step failed (request, reading the body, status other than 200,
\* decoding, empty list, empty weather); when the status is not 200 the
\* error also carries the status and the body the upstream sent.
C20_ErrorsNameLocation ==
    last.op \in {"Forecast", "Forecast_U"} =>
        /\ last.r.err # NoErr =>
              /\ last.r.err.kind = "forecast"
              /\ last.r.err.location = last.location
              /\ last.r.err.cause.kind \in FailureKinds
              /\ last.r.out = <<>>
        /\ (last.resp.fail = "none" /\ last.resp.status # StatusOK) =>
              /\ last.r.err.kind = "forecast"
              /\ last.r.err.cause = [kind |-> "status", status |-> last.resp.status,
                                      body |-> last.resp.body]

\* a call for a location with a reserved character, answered 404
C20_Witness ==
    /\ last.op = "Forecast"
    /\ Contains(last.location, <<"&">>)
    /\ last.resp.status = 404
    /\ last.r.err.kind = "forecast"
    /\ last.r.err.location = last.location
    /\ last.r.err.cause.kind = "status"

\* every failure kind is returned by some call
C20_AllFailureKinds ==
    \A k \in FailureKinds :
        \E l \in SweepLocations, a \in Responses :
            /\ LET r == Forecast(NewClient(<<"k", "1">>, <<>>).c[1], l, a)
               IN  r.err # NoErr /\ r.err.cause.kind = k /\ r.err.location = l
            /\ LET r == Forecast_U(NewClient_U(<<"k", "1">>, <<>>), l, a)
               IN  r.err # NoErr /\ r.err.cause.kind = k /\ r.err.location = l

-----------------------------------------------------------------------------
(* C21 *)

\* the options name no unit
NoUnitOption(options) ==
    \A i \in 1..Len(options) :
        options[i].name \notin {"WithSpeedUnit", "WithTempUnit", "WithUnits"}

\* the forecast text shows Fahrenheit after both temperatures and miles per
\* hour after the wind speed ("mph" or "MPH", see C6)
ShowsImperial(out) ==
    /\ PrintedLabel(out, TempKeyword) = <<" ", "º", "F">>
    /\ PrintedLabel(out, FeelsKeyword) = <<" ", "º", "F">>
    /\ PrintedLabel(out, WindKeyword) \in {<<" ", "m", "p", "h">>, <<" ", "M", "P", "H">>}

\* what client c prints for the worked example
ExampleForecast(c) ==
    IF c.variant = "enum" THEN Forecast(c, <<"a">>, Answer("none", StatusOK, ExampleDoc))
    ELSE Forecast_U(c, <<"a">>, Answer("none", StatusOK, ExampleDoc))

\* the speed and temperature strings a run of the command works with
CLIUnitStrings ==
    LET p == Parse(NoFlags, last.args)
    IN  <<FlagOrEnv(p.flags[<<"s">>], last.env.WEATHERCASTER_SPEED_UNIT),
          FlagOrEnv(p.flags[<<"t">>], last.env.WEATHERCASTER_TEMP_UNIT)>>

\* the temperature unit and the speed unit a forecast text shows, read from
\* the labels it prints
ShownTempUnit(out, kw) ==
    LET l == PrintedLabel(out, kw)
    IN  CASE l \in {<<"K">>, <<" ", "º", "K">>} -> "K"
          [] l = <<" ", "º", "C">> -> "C"
          [] l = <<" ", "º", "F">> -> "F"
          [] OTHER -> "none"
ShownSpeedUnit(out) ==
    LET l == PrintedLabel(out, WindKeyword)
    IN  CASE l = <<" ", "m", "/", "s">> -> "m/s"
          [] l \in {<<" ", "m", "p", "h">>, <<" ", "M", "P", "H">>} -> "MPH"
          [] OTHER -> "none"

\* the unit systems that report temperatures in unit t, and speeds in unit s
SystemsOfTemp(t) ==
    CASE t = "K" -> {"Standard"} [] t = "C" -> {"Metric"} [] t = "F" -> {"Imperial"}
      [] OTHER -> {}
SystemsOfSpeed(s) ==
    CASE s = "m/s" -> {"Standard", "Metric"} [] s = "MPH" -> {"Imperial"} [] OTHER -> {}

\* a forecast with a temperature and a wind speed was formatted by a client
\* reporting in recognised units
FullForecast ==
    /\ FormattedForecast
    /\ Contains(last.r.out, TempKeyword)
    /\ Contains(last.r.out, FeelsKeyword)
    /\ Contains(last.r.out, WindKeyword)

\* the default unit system is Imperial.  A client made with no unit option
\* is set to Fahrenheit and miles per hour and prints the worked example
\* with those labels (the unit-enum client converting to 82.7, the
\* Units-string client asking upstream for units=imperial); a run of RunCLI
\* whose unit strings are both empty makes a Fahrenheit/miles client and
\* writes a forecast with those labels.
DefaultIsImperial ==
    /\ (last.op \in {"NewClient", "NewClient_U"} /\ last.err = NoErr
            /\ NoUnitOption(last.options)) =>
          /\ UnitSystem(client) = "Imperial"
          /\ ShowsImperial(ExampleForecast(client).out)
          /\ IF last.op = "NewClient"
             THEN PrintedNumber(ExampleForecast(client).out, TempKeyword)
                      = <<"8", "2", ".", "7">>
             ELSE ParamValues(ExampleForecast(client).url, UnitsName) = {Imperial}
    /\ (last.op = "RunCLI" /\ last.r.c # Nil /\ CLIUnitStrings = <<<<>>, <<>>>>) =>
          /\ last.r.c[1].tempUnit = TempUnitFahrenheit
          /\ last.r.c[1].speedUnit = SpeedUnitMiles
          /\ (last.r.err = NoErr /\ ~last.r.panic) => ShowsImperial(Line(last.r.output))

-----------------------------------------------------------------------------
(* C22 *)

\* a 200 response whose document decodes and has at least one list entry
HasFirstEntry(resp) ==
    /\ resp.fail = "none"
    /\ resp.status = StatusOK
    /\ resp.body.valid
    /\ resp.body.list # Nil
    /\ Len(resp.body.list[1]) >= 1

\* the response cut down to list[0], and that to weather[0]
FirstOnly(resp) ==
    LET e == resp.body.list[1][1]
        w == IF Items(e.weather) = <<>> THEN e.weather ELSE Some(<<e.weather[1][1]>>)
    IN  [resp EXCEPT !.body.list = Some(<<[e EXCEPT !.weather = w]>>)]

\* C22: the conditions, the forecast text and the error of Forecast are the
\* same for a response and for that response with everything after list[0]
\* and after list[0].weather[0] removed.
C22_FirstEntryOnly ==
    /\ (last.op = "Forecast" /\ HasFirstEntry(last.resp)) =>
          LET r == Forecast(client, last.location, FirstOnly(last.resp))
          IN  /\ last.r.cond = r.cond
              /\ last.r.out = r.out
              /\ last.r.err = r.err
              /\ last.r.panic = r.panic
    /\ (last.op = "Forecast_U" /\ HasFirstEntry(last.resp)) =>
          LET r == Forecast_U(client, last.location, FirstOnly(last.resp))
          IN  /\ last.r.out = r.out
              /\ last.r.err = r.err
              /\ last.r.panic = r.panic
              /\ last.r.err = NoErr => last.r.ar.List[1].Main = r.ar.List[1].Main

\* Forecast formatted a two-entry list whose second entry has no readings
C22_Witness ==
    /\ last.op = "Forecast"
    /\ HasFirstEntry(last.resp)
    /\ Len(last.resp.body.list[1]) >= 2
    /\ last.resp.body.list[1][2].main = NoMain
    /\ last.resp.body.list[1][1].main = FullMain
    /\ last.r.formatted
    /\ Contains(last.r.out, TempKeyword)

-----------------------------------------------------------------------------
(* C23 *)

\* x and y are the same character up to the case of a letter
SameLetter(x, y) ==
    \/ x = y
    \/ \E i \in 1..26 : {x, y} = {UpperCase[i], LowerCase[i]}

\* s is the name, in any mix of upper and lower case
SpelledAs(s, name) ==
    /\ Len(s) = Len(name)
    /\ \A i \in 1..Len(s) : SameLetter(s[i], name[i])

\* the names the specification gives each unit
SpeedNames ==
    [n \in {<<"m", "i">>, <<"m", "i", "l", "e">>, <<"m", "i", "l", "e", "s">>} |-> SpeedUnitMiles]
        @@ [n \in {<<"m">>, <<"m", "e", "t", "e", "r">>, <<"m", "e", "t", "e", "r", "s">>} |-> SpeedUnitMeters]
TempNames ==
    [n \in {<<"c">>, <<"c", "e", "l", "s", "i", "u", "s">>} |-> TempUnitCelsius]
        @@ [n \in {<<"f">>, <<"f", "a", "h", "r", "e", "n", "h", "e", "i", "t">>} |-> TempUnitFahrenheit]
        @@ [n \in {<<"k">>, <<"k", "e", "l", "v", "i", "n">>} |-> TempUnitKelvin]

\* what the specification asks of the result r for string s under the table
\* names with default unit d
MapsByName(s, r, names, d) ==
    IF s = <<>> THEN r.err = NoErr /\ r.u = d
    ELSE IF \E n \in DOMAIN names : SpelledAs(s, n)
    THEN /\ r.err = NoErr
         /\ \A n \in DOMAIN names : SpelledAs(s, n) => r.u = names[n]
    ELSE r.err # NoErr

\* C23: ProcessCLISpeedUnit and ProcessCLITempUnit return the default for the
\* empty string, the unit named by the string whatever its letter case, and
\* an error for every other string.
C23_UnitStrings ==
    /\ last.op = "ProcessCLISpeedUnit" =>
          MapsByName(last.s, last.r, SpeedNames, SpeedUnitMiles)
    /\ last.op = "ProcessCLITempUnit" =>
          MapsByName(last.s, last.r, TempNames, TempUnitFahrenheit)

\* "mEtErS" was given to ProcessCLISpeedUnit and came back as meters
C23_Witness ==
    /\ last.op = "ProcessCLISpeedUnit"
    /\ last.s = <<"m", "E", "t", "E", "r", "S">>
    /\ last.r.err = NoErr
    /\ last.r.u = SpeedUnitMeters

\* every case of the claim is tried: each name of each unit, the empty
\* string, and strings that are no unit
C23_EveryNameTried ==
    /\ DOMAIN SpeedNames \cup DOMAIN TempNames \cup {<<>>, <<"x">>, <<"f", "e", "e", "t">>} \subseteq UnitStrings
    /\ \A n \in DOMAIN SpeedNames : ProcessCLISpeedUnit(n).u = SpeedNames[n]
    /\ \A n \in DOMAIN TempNames : ProcessCLITempUnit(n).u = TempNames[n]
    /\ ProcessCLISpeedUnit(<<"f", "e", "e", "t">>).err # NoErr
    /\ ProcessCLITempUnit(<<"x">>).err # NoErr

-----------------------------------------------------------------------------
(* C24 *)

\* the flags the user gave after the program name, as package flag reads them
UserFlags == Parse(NoFlags, Tail(last.args))

\* the command line gives a location with -l, the units it names (by flag
\* or variable) are units, and the API key is set
LocationGiven ==
    /\ last.env.OPENWEATHERMAP_API_KEY # <<>>
    /\ ~UserFlags.exit
    /\ UserFlags.flags[<<"l">>] # <<>>
    /\ ProcessCLISpeedUnit(FlagOrEnv(UserFlags.flags[<<"s">>],
                                     last.env.WEATHERCASTER_SPEED_UNIT)).err = NoErr
    /\ ProcessCLITempUnit(FlagOrEnv(UserFlags.flags[<<"t">>],
                                    last.env.WEATHERCASTER_TEMP_UNIT)).err = NoErr

\* the run asked the weather API about the location given with -l
QueriedGivenLocation ==
    /\ last.r.location = Some(UserFlags.flags[<<"l">>])
    /\ Len(last.r.requests) = 1
    /\ TheValue(last.r.requests[1], QName) = UserFlags.flags[<<"l">>]
    /\ last.r.err = NoErr \/ last.r.err.kind = "forecast"

\* C24 as stated: the command run as "weather -l <location>" queries that
\* location: main hands os.Args to RunCLI, the flags are parsed, and the call
\* does not fail with the missing-location error.
C24_MainQueriesLocation ==
    (last.op = "main" /\ LocationGiven) => QueriedGivenLocation

\* what main does instead: RunCLI parses os.Args from the program name on,
\* package flag stops at that first non-flag argument, and no flag is read;
\* the run is the one the environment variables alone describe
C24_MainReadsNoFlag ==
    last.op = "main" => last.r = RunCLI(last.env, <<>>, last.resp)

\* the RunCLI printed in README.md, which parses args[1:], queries the
\* location given with -l (it knows no "mi" and no "m" for the speed unit)
C24_READMEQueriesLocation ==
    (last.op = "RunCLI_README" /\ LocationGiven
        /\ SpeedUnitSwitch_README(FlagOrEnv(UserFlags.flags[<<"s">>],
                                            last.env.WEATHERCASTER_SPEED_UNIT)).err = NoErr)
        => QueriedGivenLocation

-----------------------------------------------------------------------------
(* C25 *)

\* the runs of the command-line entry points
CLIOps == {"RunCLI", "RunCLI_README", "main"}

\* the flags a run reads: RunCLI of weather.go parses the arguments it is
\* given, the one of README.md those after the first
ReadFlags ==
    IF last.op = "RunCLI_README" THEN Parse(NoFlags, Tail(last.args))
    ELSE Parse(NoFlags, last.args)

\* the strings a run works with, flag first and environment variable second
RunLocation == FlagOrEnv(ReadFlags.flags[<<"l">>], last.env.WEATHERCASTER_LOCATION)
RunSpeedUnit == FlagOrEnv(ReadFlags.flags[<<"s">>], last.env.WEATHERCASTER_SPEED_UNIT)
RunTempUnit == FlagOrEnv(ReadFlags.flags[<<"t">>], last.env.WEATHERCASTER_TEMP_UNIT)

\* the speed string is no speed unit, by the table of C23 (the README
\* version lacks "mi" and "m"); the temperature string is no temperature unit
SpeedUnitInvalid ==
    /\ RunSpeedUnit # <<>>
    /\ \A n \in DOMAIN SpeedNames :
          ~SpelledAs(RunSpeedUnit, n) \/ (last.op = "RunCLI_README" /\ Len(n) <= 2)
TempUnitInvalid ==
    /\ RunTempUnit # <<>>
    /\ \A n \in DOMAIN TempNames : ~SpelledAs(RunTempUnit, n)

\* a precondition of the run does not hold
PreconditionFails ==
    \/ last.env.OPENWEATHERMAP_API_KEY = <<>>
    \/ RunLocation = <<>>
    \/ SpeedUnitInvalid
    \/ TempUnitInvalid

\* the run created no client, sent no request and wrote nothing to output
NothingDone ==
    /\ last.r.c = Nil
    /\ last.r.requests = <<>>
    /\ last.r.output = <<>>

\* C25: when the API key is empty, the location is empty in flag and
\* variable, or a unit string is invalid, RunCLI returns an error and has
\* created no client, sent no request and written nothing to output; a run
\* that package flag ends has done none of these either.
C25_NoRequestUnlessValid ==
    last.op \in CLIOps =>
        /\ (last.env.OPENWEATHERMAP_API_KEY = <<>>) =>
              last.r.err = [kind |-> "noAPIKey"] /\ NothingDone
        /\ (last.env.OPENWEATHERMAP_API_KEY # <<>> /\ ReadFlags.exit) =>
              last.r.exit /\ NothingDone
        /\ (PreconditionFails /\ ~last.r.exit) =>
              /\ last.r.err # NoErr
              /\ last.r.err.kind \in {"noAPIKey", "noLocation", "speedUnitInvalid",
                                      "tempUnitInvalid"}
              /\ NothingDone
        /\ ~NothingDone => ~PreconditionFails /\ Len(last.r.requests) = 1

\* RunCLI was given a key and a valid location with an invalid temperature
\* unit, and returned the error of ProcessCLITempUnit without a request
C25_Witness ==
    /\ last.op = "RunCLI"
    /\ last.env.OPENWEATHERMAP_API_KEY # <<>>
    /\ RunLocation # <<>>
    /\ ~SpeedUnitInvalid
    /\ TempUnitInvalid
    /\ last.r.err.kind = "tempUnitInvalid"
    /\ NothingDone

\* each of the four failing preconditions is met by some run, and so is a
\* run that sent its request
C25_EveryPreconditionTried ==
    LET resp == Answer("none", StatusOK, FullDoc)
        Tried(kind) == \E e \in Environments, a \in UserArgs :
                           /\ RunCLI(e, a, resp).err.kind = kind
                           /\ RunCLI(e, a, resp).requests = <<>>
    IN  /\ \A kind \in {"noAPIKey", "noLocation", "speedUnitInvalid", "tempUnitInvalid"} :
              Tried(kind)
        /\ \E e \in Environments, a \in UserArgs : Len(RunCLI(e, a, resp).requests) = 1

-----------------------------------------------------------------------------
(* C26 *)

\* the last call read List[0] or List[0].Weather[0] of a list or weather
\* array that was empty: the weatherCaster calls panic on it, Forecast would
\* have formatted a response that has no first entry
IndexedEmpty ==
    \/ last.op \in {"ForecastByCity", "GetDescription", "GetForecast"} /\ last.r.panic
    \/ /\ last.op \in {"Forecast", "Forecast_U"}
       /\ last.r.formatted
       /\ ListOrWeatherEmpty(last.resp)

\* C26 as stated: no forecast operation of any client (Forecast,
\* ForecastByCity, GetDescription, GetForecast) ever reads the first element
\* of an empty list or weather array, whatever the body of a 200 response
\* and also before any response was parsed.
C26_NeverIndexesEmpty ==
    ~IndexedEmpty

\* the part that holds: Forecast of the unit-enum and of the Units-string
\* client formats a response only when list and list[0].weather are not empty
C26_ForecastChecksFirst ==
    (last.op \in {"Forecast", "Forecast_U"} /\ last.r.formatted) =>
        /\ HasFirstEntry(last.resp)
        /\ ~ListOrWeatherEmpty(last.resp)

-----------------------------------------------------------------------------
(* C27 *)

\* ConvertTemp, ConvertSpeed of client c leave their switch without a case
\* having matched, and return the zero value
ConvertTempFallsThrough(c) ==
    c.tempUnit \notin {TempUnitCelsius, TempUnitFahrenheit, TempUnitKelvin}
ConvertSpeedFallsThrough(c) ==
    c.speedUnit \notin {SpeedUnitMeters, SpeedUnitMiles}

\* the units of c are units, its conversions match a case, its labels are
\* not empty
UnitsInRange(c) ==
    /\ c.tempUnit \in {TempUnitFahrenheit, TempUnitCelsius, TempUnitKelvin}
    /\ c.speedUnit \in {SpeedUnitMiles, SpeedUnitMeters}
    /\ ~ConvertTempFallsThrough(c)
    /\ ~ConvertSpeedFallsThrough(c)
    /\ tempUnitOf(c) # <<>>
    /\ speedUnitOf(c) # <<>>

\* C27: whatever NewClient, SetTempUnit and SetSpeedUnit calls were made,
\* with units in range or not, the unit-enum client's temperature unit is
\* Fahrenheit, Celsius or Kelvin and its speed unit is miles or meters, so
\* ConvertTemp and ConvertSpeed never fall through to 0 and no printed label
\* is empty; the same holds for the client RunCLI creates.
C27_UnitsInRange ==
    /\ client.variant = "enum" => UnitsInRange(client)
    /\ (last.op \in CLIOps /\ last.r.c # Nil) => UnitsInRange(last.r.c[1])
    /\ (last.op = "Forecast" /\ last.r.formatted /\ ~last.r.panic) =>
          /\ Contains(last.r.out, TempKeyword) =>
                PrintedLabel(last.r.out, TempKeyword) # <<>>
          /\ Contains(last.r.out, WindKeyword) =>
                PrintedLabel(last.r.out, WindKeyword) # <<" ">>

\* a client set to Kelvin and meters refused the temperature unit 3 and
\* kept Kelvin
C27_Witness ==
    /\ last.op = "SetTempUnit"
    /\ last.unit = 3
    /\ last.err # NoErr
    /\ client.tempUnit = TempUnitKelvin
    /\ client.speedUnit = SpeedUnitMeters

-----------------------------------------------------------------------------
(* C28 *)

\* C28: SetTempUnit and SetSpeedUnit with a unit out of range return an
\* error and leave every field of the client as it was; with a unit in range
\* they return no error and change that one unit field and nothing else.
C28_SettersFrame ==
    [][/\ last'.op = "SetTempUnit" =>
            IF last'.unit \in {TempUnitFahrenheit, TempUnitCelsius, TempUnitKelvin}
            THEN /\ last'.err = NoErr
                 /\ client' = [client EXCEPT !.tempUnit = last'.unit]
            ELSE /\ last'.err # NoErr
                 /\ client' = client
       /\ last'.op = "SetSpeedUnit" =>
            IF last'.unit \in {SpeedUnitMiles, SpeedUnitMeters}
            THEN /\ last'.err = NoErr
                 /\ client' = [client EXCEPT !.speedUnit = last'.unit]
            ELSE /\ last'.err # NoErr
                 /\ client' = client]_vars

\* a client set to Celsius and meters, on another host, refused the speed
\* unit 2 and is still set to Celsius and meters on that host
C28_Witness ==
    /\ last.op = "SetSpeedUnit"
    /\ last.unit = 2
    /\ last.err # NoErr
    /\ client.speedUnit = SpeedUnitMeters
    /\ client.tempUnit = TempUnitCelsius
    /\ client.APIHost = TestHost

-----------------------------------------------------------------------------
(* C29 *)

\* the position of the first option that asks for a unit out of range, or 0
FirstFailing(options) ==
    IF \E i \in 1..Len(options) : UnrecognizedUnit(options[i])
    THEN CHOOSE i \in 1..Len(options) :
            /\ UnrecognizedUnit(options[i])
            /\ \A j \in 1..(i - 1) : ~UnrecognizedUnit(options[j])
    ELSE 0

\* the argument of the last option called name, or default when there is none
LastSetting(options, name, default) ==
    IF \E i \in 1..Len(options) : options[i].name = name
    THEN LET i == CHOOSE k \in 1..Len(options) :
                     /\ options[k].name = name
                     /\ \A j \in (k + 1)..Len(options) : options[j].name # name
         IN  IF name = "WithAPIHost" THEN options[i].text ELSE options[i].unit
    ELSE default

\* C29: NewClient of the unit-enum client returns either a client and no
\* error or no client and an error.  The error is that of the first option
\* out of range, whatever follows it; when no option fails the client holds
\* the options in the order given (a later one overrides an earlier one) and
\* the defaults elsewhere; with no option it has host
\* https://api.openweathermap.org and path /data/2.5/forecast.
C29_NewClientResult ==
    last.op = "NewClient" =>
        LET k == FirstFailing(last.options)
        IN  /\ (last.c = Nil) # (last.err = NoErr)
            /\ IF k = 0
               THEN /\ last.err = NoErr
                    /\ last.c = Some(client)
                    /\ client.APIKey = last.key
                    /\ client.APIHost = LastSetting(last.options, "WithAPIHost", DefaultAPIHost)
                    /\ client.APIURI = DefaultAPIURI
                    /\ client.tempUnit =
                          LastSetting(last.options, "WithTempUnit", TempUnitFahrenheit)
                    /\ client.speedUnit =
                          LastSetting(last.options, "WithSpeedUnit", SpeedUnitMiles)
               ELSE /\ last.c = Nil
                    /\ client = NoClient
                    /\ last.err.kind = IF last.options[k].name = "WithTempUnit"
                                       THEN "tempUnitRange" ELSE "speedUnitRange"
                    /\ last.err.unit = last.options[k].unit
            /\ last.options = <<>> =>
                  /\ client.APIHost =
                        <<"h", "t", "t", "p", "s", ":", "/", "/", "a", "p", "i", ".",
                          "o", "p", "e", "n", "w", "e", "a", "t", "h", "e", "r", "m", "a", "p",
                          ".", "o", "r", "g">>
                  /\ client.APIURI =
                        <<"/", "d", "a", "t", "a", "/", "2", ".", "5", "/",
                          "f", "o", "r", "e", "c", "a", "s", "t">>

\* NewClient was given WithTempUnit(3) and then WithSpeedUnit(2), and
\* returned the error about temperature unit 3 and no client
C29_Witness ==
    /\ last.op = "NewClient"
    /\ Len(last.options) = 2
    /\ last.options[1].name = "WithTempUnit" /\ last.options[1].unit = 3
    /\ last.options[2].name = "WithSpeedUnit" /\ last.options[2].unit = 2
    /\ last.c = Nil
    /\ last.err = [kind |-> "tempUnitRange", unit |-> 3]

-----------------------------------------------------------------------------
(* C30 *)

\* the units the upstream numbers of a request are in, by its URL: Kelvin
\* and m/s without a units parameter, those of units=metric or
\* units=imperial, and "?" for a units value the API does not define
UpstreamTempUnit(url) ==
    CASE ParamCount(url, UnitsName) = 0 -> "K"
      [] ParamValues(url, UnitsName) = {Metric} -> "C"
      [] ParamValues(url, UnitsName) = {Imperial} -> "F"
      [] OTHER -> "?"
UpstreamSpeedUnit(url) ==
    CASE ParamCount(url, UnitsName) = 0 -> "m/s"
      [] ParamValues(url, UnitsName) = {Metric} -> "m/s"
      [] ParamValues(url, UnitsName) = {Imperial} -> "MPH"
      [] OTHER -> "?"

\* the unit a printed label stands for, or "none"
UnitOfTempLabel(label) ==
    CASE label \in {<<"K">>, <<" ", "º", "K">>} -> "K"
      [] label = <<" ", "º", "C">> -> "C"
      [] label = <<" ", "º", "F">> -> "F"
      [] OTHER -> "none"
UnitOfSpeedLabel(label) ==
    CASE label = <<" ", "m", "/", "s">> -> "m/s"
      [] label \in {<<" ", "m", "p", "h">>, <<" ", "M", "P", "H">>} -> "MPH"
      [] OTHER -> "none"

\* a reading of h hundredths of a Kelvin, of a meter per second, in unit u
InTempUnit(u, h) ==
    CASE u = "K" -> Num(h)
      [] u = "C" -> SpecTemperature(TempUnitCelsius, h)
      [] u = "F" -> SpecTemperature(TempUnitFahrenheit, h)
InSpeedUnit(u, h) ==
    CASE u = "m/s" -> Num(h)
      [] u = "MPH" -> FMul(FromDecimal(2236936, 6), Num(h))

\* the forecast of the last call prints its temperature and its wind speed
\* converted once: either the request carried no units parameter and the
\* numbers printed are the upstream Kelvin and m/s readings converted to the
\* client's units, or the numbers printed are the upstream readings as they
\* came; and each label names the unit its number is in
ConvertedOnce ==
    LET e    == FirstEntry(last.resp)
        out  == last.r.out
        url  == last.r.url
        temp == Contains(out, TempKeyword) /\ e.main.temp # Nil
        wind == Contains(out, WindKeyword) /\ e.wind.speed # Nil
    IN  IF last.op = "Forecast"
        THEN /\ ParamCount(url, UnitsName) = 0
             /\ temp =>
                   /\ PrintedNumber(out, TempKeyword) =
                         FmtF1(InTempUnit(TempUnitOfClient(client), e.main.temp[1]))
                   /\ UnitOfTempLabel(PrintedLabel(out, TempKeyword)) =
                         TempUnitOfClient(client)
             /\ wind =>
                   /\ PrintedNumber(out, WindKeyword) =
                         FmtF1(InSpeedUnit(SpeedUnitOfClient(client), e.wind.speed[1]))
                   /\ UnitOfSpeedLabel(PrintedLabel(out, WindKeyword)) =
                         SpeedUnitOfClient(client)
        ELSE /\ temp =>
                   /\ PrintedNumber(out, TempKeyword) = FmtF1(Num(e.main.temp[1]))
                   /\ UnitOfTempLabel(PrintedLabel(out, TempKeyword)) = UpstreamTempUnit(url)
             /\ wind =>
                   /\ PrintedNumber(out, WindKeyword) = FmtV(Num(e.wind.speed[1]))
                   /\ UnitOfSpeedLabel(PrintedLabel(out, WindKeyword)) = UpstreamSpeedUnit(url)

\* C30 as stated: for every client configuration the temperature and the
\* wind speed of a forecast are converted from the upstream units exactly
\* once, by upstream or by the formatter and never by both, and the label
\* printed is the unit of the number printed.
C30_ConvertedOnceAlways ==
    (last.op \in {"Forecast", "Forecast_U"} /\ last.r.formatted /\ ~last.r.panic) =>
        ConvertedOnce

\* the same for the configurations whose units are units: every unit-enum
\* client, and the Units-string client set to standard, metric or imperial
C30_ConvertedOnceRecognised ==
    (last.op \in {"Forecast", "Forecast_U"} /\ last.r.formatted /\ ~last.r.panic
        /\ TempUnitOfClient(client) # "none") =>
        ConvertedOnce

====
